---- MODULE Spec2Model ----
(***************************************************************************)
(* The graph engine of in-block (src/utils/graph.ts) and the handlers of   *)
(* src/App.tsx that apply it to the canvas state.                          *)
(*                                                                         *)
(* A node is [id, ports, x, content]; an edge is [id, source,              *)
(* sourceHandle, target, targetHandle, color]; a group is [id, nodeIds].   *)
(* uuidv4() is modelled as the smallest identifier not in use.  Port       *)
(* identifiers are unique among the ports of one node: the code compares a *)
(* handle only together with the id of the node it belongs to.             *)
(*                                                                         *)
(* run holds the locals of a call of performLayout or getExecutionSequence *)
(* that is under way; the nodes of these calls also carry y, width, height *)
(* and collapsed, and the nodes of a merge carry content, a sequence of    *)
(* characters.                                                             *)
(***************************************************************************)
EXTENDS Integers, Sequences, FiniteSets, TLC

VARIABLES nodes, edges, groups, op, run

vars == <<nodes, edges, groups, op, run>>

(* ---------------------------- bounds ----------------------------------- *)
\* handleConnectEnd is taken while the canvas has fewer edges than this
MaxEdges == 2
\* the number of edge removals, deletions and merges in one run; the run ends
\* with the last of them
MaxOps == 2
\* the number of ids in one selection
MaxSel == 2
\* the longest port list getCleanedPorts is given on its own
MaxPortList == 4
Colors == {"blue", "violet"}
\* ids that no node carries: uuidv4 never returns them
AbsentIds == {0}

(* ---------------------------- helpers ---------------------------------- *)
Range(s) == {s[i] : i \in 1..Len(s)}

RECURSIVE Flatten(_)
Flatten(ss) == IF ss = <<>> THEN <<>> ELSE Head(ss) \o Flatten(Tail(ss))

\* uuidv4(): an identifier that is not in use
uuidv4(used) == CHOOSE n \in 1..(Cardinality(used) + 1) :
                    /\ n \notin used
                    /\ \A m \in 1..(n - 1) : m \in used

NodeIds(ns) == {ns[i].id : i \in 1..Len(ns)}
EdgeIds(es) == {es[i].id : i \in 1..Len(es)}

\* nodes.find(n => n.id === id), defined when the id is present
FindNode(ns, id) == ns[CHOOSE i \in 1..Len(ns) : ns[i].id = id]

SameTuple(e, f) ==
    /\ e.source = f.source
    /\ e.target = f.target
    /\ e.sourceHandle = f.sourceHandle
    /\ e.targetHandle = f.targetHandle

(* ------------------------- getCleanedPorts ----------------------------- *)
\* mutant: the target handles are not collected
ActivePortsSourceOnly(nodeId, currentEdges) ==
    {currentEdges[i].sourceHandle :
        i \in {j \in 1..Len(currentEdges) : currentEdges[j].source = nodeId}}

ActivePorts(nodeId, currentEdges) ==
    {currentEdges[i].sourceHandle :
        i \in {j \in 1..Len(currentEdges) : currentEdges[j].source = nodeId}}
    \cup
    {currentEdges[i].targetHandle :
        i \in {j \in 1..Len(currentEdges) : currentEdges[j].target = nodeId}}

\* mutant: an if in place of the while loop
TrimPortsOnce(newPorts, activePorts) ==
    IF Len(newPorts) > 1
    THEN LET lastIndex == Len(newPorts)
         IN  IF newPorts[lastIndex] \in activePorts THEN newPorts
             ELSE IF newPorts[lastIndex - 1] \notin activePorts
                  THEN SubSeq(newPorts, 1, lastIndex - 1)
                  ELSE newPorts
    ELSE newPorts

\* mutant: the loop stops at two ports
RECURSIVE TrimPortsKeepTwo(_, _)
TrimPortsKeepTwo(newPorts, activePorts) ==
    IF Len(newPorts) > 2
    THEN LET lastIndex == Len(newPorts)
         IN  IF newPorts[lastIndex] \in activePorts THEN newPorts
             ELSE IF newPorts[lastIndex - 1] \notin activePorts
                  THEN TrimPortsKeepTwo(SubSeq(newPorts, 1, lastIndex - 1), activePorts)
                  ELSE newPorts
    ELSE newPorts

RECURSIVE TrimPorts(_, _)
TrimPorts(newPorts, activePorts) ==
    IF Len(newPorts) > 1
    THEN LET lastIndex == Len(newPorts)
             isLastActive == newPorts[lastIndex] \in activePorts
             isSecondLastActive == newPorts[lastIndex - 1] \in activePorts
         IN  IF isLastActive THEN newPorts
             ELSE IF ~isSecondLastActive
                  THEN TrimPorts(SubSeq(newPorts, 1, lastIndex - 1), activePorts)
                  ELSE newPorts
    ELSE newPorts

\* mutant: every unused port at the end is dropped, down to one port
RECURSIVE DropUnusedTail(_, _)
DropUnusedTail(newPorts, activePorts) ==
    IF Len(newPorts) > 1 /\ newPorts[Len(newPorts)] \notin activePorts
    THEN DropUnusedTail(SubSeq(newPorts, 1, Len(newPorts) - 1), activePorts)
    ELSE newPorts

getCleanedPortsNoSpare(node, currentEdges) ==
    DropUnusedTail(node.ports, ActivePorts(node.id, currentEdges))

getCleanedPorts(node, currentEdges) ==
    TrimPorts(node.ports, ActivePorts(node.id, currentEdges))

(* --------------------- calculateDeletionEffects ------------------------ *)
IDEAL_GAP == 400

\* mutant: an edge between two deleted nodes counts as incoming
IncomingEdgesInternal(es, idsSet) ==
    LET P(e) == e.target \in idsSet IN SelectSeq(es, P)

\* the partition of the edges (internal edges are in none of the three)
IncomingEdges(es, idsSet) ==
    LET P(e) == e.source \notin idsSet /\ e.target \in idsSet IN SelectSeq(es, P)

OutgoingEdges(es, idsSet) ==
    LET P(e) == e.source \in idsSet /\ e.target \notin idsSet IN SelectSeq(es, P)

\* mutant: an edge into a deleted node counts as remaining
RemainingEdgesKeepIncoming(es, idsSet) ==
    LET P(e) == e.source \notin idsSet IN SelectSeq(es, P)

RemainingEdges(es, idsSet) ==
    LET P(e) == e.source \notin idsSet /\ e.target \notin idsSet IN SelectSeq(es, P)

\* the (inEdge, outEdge) pairs in the order the nested forEach loops visit them
PortPairs(deletedId, portId, incomingEdges, outgoingEdges) ==
    LET PIn(e) == e.target = deletedId /\ e.targetHandle = portId
        POut(e) == e.source = deletedId /\ e.sourceHandle = portId
        portInEdges == SelectSeq(incomingEdges, PIn)
        portOutEdges == SelectSeq(outgoingEdges, POut)
    IN  Flatten([i \in 1..Len(portInEdges) |->
                    [o \in 1..Len(portOutEdges) |->
                        <<portInEdges[i], portOutEdges[o]>>]])

BridgePairs(ns, incomingEdges, outgoingEdges, deletedNodeIds) ==
    Flatten([d \in 1..Len(deletedNodeIds) |->
        IF deletedNodeIds[d] \notin NodeIds(ns) THEN <<>>
        ELSE LET node == FindNode(ns, deletedNodeIds[d])
             IN  Flatten([p \in 1..Len(node.ports) |->
                    PortPairs(deletedNodeIds[d], node.ports[p],
                              incomingEdges, outgoingEdges)])])

\* mutant: the bridge takes the color of the outgoing edge
BridgeEdgeOutColor(inEdge, outEdge, newId) ==
    [id |-> newId,
     source |-> inEdge.source,
     target |-> outEdge.target,
     sourceHandle |-> inEdge.sourceHandle,
     targetHandle |-> outEdge.targetHandle,
     color |-> outEdge.color]

\* mutant: the bridge runs from the target of the outgoing edge back to the
\* source of the incoming edge
BridgeEdgeReversed(inEdge, outEdge, newId) ==
    [id |-> newId,
     source |-> outEdge.target,
     target |-> inEdge.source,
     sourceHandle |-> outEdge.targetHandle,
     targetHandle |-> inEdge.sourceHandle,
     color |-> inEdge.color]

BridgeEdge(inEdge, outEdge, newId) ==
    [id |-> newId,
     source |-> inEdge.source,
     target |-> outEdge.target,
     sourceHandle |-> inEdge.sourceHandle,
     targetHandle |-> outEdge.targetHandle,
     color |-> inEdge.color]

\* mutant: the bridges made so far are not searched
BridgeExistsRemainingOnly(inEdge, outEdge, bridgedEdges, remainingEdges) ==
    LET want == BridgeEdge(inEdge, outEdge, 0)
    IN  \E i \in 1..Len(remainingEdges) : SameTuple(remainingEdges[i], want)

BridgeExists(inEdge, outEdge, bridgedEdges, remainingEdges) ==
    LET want == BridgeEdge(inEdge, outEdge, 0)
    IN  \/ \E i \in 1..Len(bridgedEdges) : SameTuple(bridgedEdges[i], want)
        \/ \E i \in 1..Len(remainingEdges) : SameTuple(remainingEdges[i], want)

RECURSIVE AddBridges(_, _, _, _)
AddBridges(pairs, bridgedEdges, remainingEdges, usedIds) ==
    IF pairs = <<>> THEN bridgedEdges
    ELSE LET inEdge == Head(pairs)[1]
             outEdge == Head(pairs)[2]
             exists == BridgeExists(inEdge, outEdge, bridgedEdges, remainingEdges)
             newId == uuidv4(usedIds)
         IN  IF ~exists
             THEN AddBridges(Tail(pairs),
                             Append(bridgedEdges, BridgeEdge(inEdge, outEdge, newId)),
                             remainingEdges, usedIds \cup {newId})
             ELSE AddBridges(Tail(pairs), bridgedEdges, remainingEdges, usedIds)

BridgedEdges(ns, es, deletedNodeIds) ==
    LET idsSet == Range(deletedNodeIds)
    IN  AddBridges(BridgePairs(ns, IncomingEdges(es, idsSet),
                               OutgoingEdges(es, idsSet), deletedNodeIds),
                   <<>>, RemainingEdges(es, idsSet), EdgeIds(es))

\* shiftSubtreeLeft: st is [nodes, moved, log], nextNodes, movedNodesSet and
\* the writes node.position.x += deltaX made so far
RECURSIVE shiftSubtreeLeft(_, _, _, _)
RECURSIVE ShiftChildren(_, _, _, _)
shiftSubtreeLeft(rootId, deltaX, finalEdges, st) ==
    IF rootId \in st.moved THEN st
    ELSE LET moved == st.moved \cup {rootId}
         IN  IF rootId \in NodeIds(st.nodes)
             THEN LET shifted == [i \in 1..Len(st.nodes) |->
                                    IF st.nodes[i].id = rootId
                                    THEN [st.nodes[i] EXCEPT !.x = @ + deltaX]
                                    ELSE st.nodes[i]]
                      FromRoot(e) == e.source = rootId
                      outEdges == SelectSeq(finalEdges, FromRoot)
                      children == [i \in 1..Len(outEdges) |-> outEdges[i].target]
                  IN  ShiftChildren(children, deltaX, finalEdges,
                                    [nodes |-> shifted, moved |-> moved,
                                     log |-> Append(st.log,
                                                [id |-> rootId, deltaX |-> deltaX])])
             ELSE [st EXCEPT !.moved = moved]

ShiftChildren(children, deltaX, finalEdges, st) ==
    IF children = <<>> THEN st
    ELSE ShiftChildren(Tail(children), deltaX, finalEdges,
                       shiftSubtreeLeft(Head(children), deltaX, finalEdges, st))

\* mutant: every bridged edge starts with an empty movedNodesSet
ShiftStartFreshSet(childId, shiftAmount, finalEdges, st) ==
    shiftSubtreeLeft(childId, shiftAmount, finalEdges, [st EXCEPT !.moved = {}])

\* mutant: the subtree is moved by the amount with the other sign
ShiftStartRight(childId, shiftAmount, finalEdges, st) ==
    shiftSubtreeLeft(childId, 0 - shiftAmount, finalEdges, st)

\* shiftSubtreeLeft(child.id, shiftAmount)
ShiftStart(childId, shiftAmount, finalEdges, st) ==
    shiftSubtreeLeft(childId, shiftAmount, finalEdges, st)

RECURSIVE ShiftForBridges(_, _, _)
ShiftForBridges(bridgedEdges, finalEdges, st) ==
    IF bridgedEdges = <<>> THEN st
    ELSE LET edge == Head(bridgedEdges)
             ids == NodeIds(st.nodes)
         IN  IF edge.source \in ids /\ edge.target \in ids
             THEN LET parent == FindNode(st.nodes, edge.source)
                      child == FindNode(st.nodes, edge.target)
                      currentDist == child.x - parent.x
                  IN  IF currentDist > IDEAL_GAP + 50
                      THEN ShiftForBridges(Tail(bridgedEdges), finalEdges,
                               ShiftStart(child.id, IDEAL_GAP - currentDist,
                                          finalEdges, st))
                      ELSE ShiftForBridges(Tail(bridgedEdges), finalEdges, st)
             ELSE ShiftForBridges(Tail(bridgedEdges), finalEdges, st)

\* mutant: the groups left empty are not dropped
StripGroupsKeepEmpty(gs, removed) ==
    LET Kept(nid) == nid \notin removed
    IN  [i \in 1..Len(gs) |-> [gs[i] EXCEPT !.nodeIds = SelectSeq(@, Kept)]]

\* groups.map(g => ({...g, nodeIds: filter})).filter(g => g.nodeIds.length > 0)
StripGroups(gs, removed) ==
    LET Kept(nid) == nid \notin removed
        stripped == [i \in 1..Len(gs) |->
                        [gs[i] EXCEPT !.nodeIds = SelectSeq(@, Kept)]]
        NonEmpty(g) == Len(g.nodeIds) > 0
    IN  SelectSeq(stripped, NonEmpty)

calculateDeletionEffects(ns, es, gs, deletedNodeIds) ==
    LET idsSet == Range(deletedNodeIds)
        remainingEdges == RemainingEdges(es, idsSet)
        bridgedEdges == BridgedEdges(ns, es, deletedNodeIds)
        finalEdges == remainingEdges \o bridgedEdges
        Survives(n) == n.id \notin idsSet
        survivors == SelectSeq(ns, Survives)
        shiftState == ShiftForBridges(bridgedEdges, finalEdges,
                          [nodes |-> survivors, moved |-> {}, log |-> <<>>])
        shifted == shiftState.nodes
        nextNodes == [i \in 1..Len(shifted) |->
                        [shifted[i] EXCEPT !.ports =
                            getCleanedPorts(shifted[i], finalEdges)]]
    IN  [nodes |-> nextNodes,
         edges |-> finalEdges,
         groups |-> StripGroups(gs, idsSet),
         moves |-> shiftState.log]

(* ----------------------- calculateMergeEffects ------------------------- *)
Min(S) == CHOOSE m \in S : \A k \in S : m <= k

\* mutant: no node is taken unless every id names one
NodesToMergeEvery(ns, mergeNodeIds) ==
    IF \A k \in 1..Len(mergeNodeIds) : mergeNodeIds[k] \in NodeIds(ns)
    THEN [i \in 1..Len(mergeNodeIds) |-> FindNode(ns, mergeNodeIds[i])]
    ELSE <<>>

\* mutant: the nodes are taken in the order of the nodes array
NodesToMergeArrayOrder(ns, mergeNodeIds) ==
    LET Named(n) == n.id \in Range(mergeNodeIds) IN SelectSeq(ns, Named)

\* mergeNodeIds.map(id => nodes.find(...)).filter(n => n !== undefined)
NodesToMerge(ns, mergeNodeIds) ==
    LET Found(id) == id \in NodeIds(ns)
        found == SelectSeq(mergeNodeIds, Found)
    IN  [i \in 1..Len(found) |-> FindNode(ns, found[i])]

\* the characters trim() removes
Whitespace == {" ", "\n"}

\* text.trim().length = 0
IsBlank(text) == \A k \in 1..Len(text) : text[k] \in Whitespace

\* texts.join(sep)
RECURSIVE Join(_, _)
Join(texts, sep) ==
    IF texts = <<>> THEN <<>>
    ELSE IF Len(texts) = 1 THEN texts[1]
    ELSE texts[1] \o sep \o Join(Tail(texts), sep)

\* nodesToMerge.map(n => n.content).filter(...).join('\n\n')
MergedContent(nodesToMerge) ==
    LET NotBlank(text) == ~IsBlank(text)
        contents == [i \in 1..Len(nodesToMerge) |-> nodesToMerge[i].content]
    IN  Join(SelectSeq(contents, NotBlank), <<"\n", "\n">>)

\* mutant: a connection is never found among the seen ones
SeenNever(seenConnections, key) == FALSE

\* seenConnections.has(key)
Seen(seenConnections, key) == key \in seenConnections

\* the edges.forEach loop: acc is [newEdges, seen, used]
RECURSIVE MergeEdges(_, _, _, _, _)
MergeEdges(es, mergeIds, newNodeId, newPortId, acc) ==
    IF es = <<>> THEN acc.newEdges
    ELSE LET edge == Head(es)
             isSourceSelected == edge.source \in mergeIds
             isTargetSelected == edge.target \in mergeIds
             newId == uuidv4(acc.used)
             inKey == <<edge.source, edge.sourceHandle, newNodeId, newPortId>>
             outKey == <<newNodeId, newPortId, edge.target, edge.targetHandle>>
             Push(e, key) == [newEdges |-> Append(acc.newEdges, e),
                              seen |-> acc.seen \cup {key},
                              used |-> acc.used \cup {newId}]
             next ==
                IF isSourceSelected /\ isTargetSelected THEN acc
                ELSE IF isTargetSelected
                THEN IF ~Seen(acc.seen, inKey)
                     THEN Push([id |-> newId,
                                source |-> edge.source,
                                sourceHandle |-> edge.sourceHandle,
                                target |-> newNodeId,
                                targetHandle |-> newPortId,
                                color |-> edge.color], inKey)
                     ELSE acc
                ELSE IF isSourceSelected
                THEN IF ~Seen(acc.seen, outKey)
                     THEN Push([id |-> newId,
                                source |-> newNodeId,
                                sourceHandle |-> newPortId,
                                target |-> edge.target,
                                targetHandle |-> edge.targetHandle,
                                color |-> edge.color], outKey)
                     ELSE acc
                ELSE [acc EXCEPT !.newEdges = Append(@, edge)]
         IN  MergeEdges(Tail(es), mergeIds, newNodeId, newPortId, next)

\* the result for a merge that found no node
NullResult == [null |-> TRUE]

calculateMergeEffects(ns, es, gs, mergeNodeIds) ==
    LET nodesToMerge == NodesToMerge(ns, mergeNodeIds)
        mergeIds == Range(mergeNodeIds)
    IN  IF Len(nodesToMerge) = 0 THEN NullResult
        ELSE LET minX == Min({nodesToMerge[i].x : i \in 1..Len(nodesToMerge)})
                 newNodeId == uuidv4(NodeIds(ns) \cup mergeIds)
                 newPortId == uuidv4({})
                 newNode == [id |-> newNodeId, ports |-> <<newPortId>>, x |-> minX,
                             content |-> MergedContent(nodesToMerge)]
                 newEdges == MergeEdges(es, mergeIds, newNodeId, newPortId,
                                [newEdges |-> <<>>, seen |-> {}, used |-> EdgeIds(es)])
                 Kept(n) == n.id \notin mergeIds
             IN  [null |-> FALSE,
                  nodes |-> Append(SelectSeq(ns, Kept), newNode),
                  edges |-> newEdges,
                  groups |-> StripGroups(gs, mergeIds),
                  newNode |-> newNode]

(* ------------------------------ actions -------------------------------- *)
Snapshot == [nodes |-> nodes, edges |-> edges, groups |-> groups]

\* op records the last operation: its kind, the ids it was called with, whether
\* it returned null, the snapshot it was applied to, and the kinds of the edge
\* removals, deletions and merges so far
Record(kind, ids, isNull) ==
    [kind |-> kind, ids |-> ids, null |-> isNull, pre |-> Snapshot,
     log |-> IF kind = "connect" THEN op.log ELSE Append(op.log, kind)]

\* the sequences of at most k elements of S
RECURSIVE Selections(_, _)
Selections(S, k) ==
    IF k = 0 THEN {<<>>}
    ELSE LET shorter == Selections(S, k - 1)
         IN  shorter \cup {Append(s, x) : s \in shorter, x \in S}

\* the selections: 1..k distinct ids
IdLists(S, k) ==
    {s \in Selections(S, k) :
        /\ Len(s) >= 1
        /\ \A i, j \in 1..Len(s) : i # j => s[i] # s[j]}

\* a text node without content
N(id, ports, x) == [id |-> id, ports |-> ports, x |-> x, content |-> <<>>]

E(id, source, sourceHandle, target, targetHandle, color) ==
    [id |-> id, source |-> source, sourceHandle |-> sourceHandle,
     target |-> target, targetHandle |-> targetHandle, color |-> color]

G(id, nodeIds) == [id |-> id, nodeIds |-> nodeIds]

\* three unconnected nodes
FreshCanvas ==
    [nodes |-> <<N(1, <<1>>, 0), N(2, <<1>>, 500), N(3, <<1>>, 1000)>>,
     edges |-> <<>>,
     groups |-> <<G(1, <<3, 1, 2>>), G(2, <<2>>)>>]

\* 1 -> 2 -> 3 with the shortcut 1 -> 3 on the same ports
ShortcutCanvas ==
    [nodes |-> <<N(1, <<1, 2>>, 0), N(2, <<1, 2>>, 500), N(3, <<1, 2>>, 1000)>>,
     edges |-> <<E(1, 1, 1, 2, 1, "blue"), E(2, 2, 1, 3, 1, "violet"),
                 E(3, 1, 1, 3, 1, "violet")>>,
     groups |-> <<G(1, <<2, 3>>)>>]

\* 1 -> 2 -> 3 twice, through two ports of node 2
TwoPortCanvas ==
    [nodes |-> <<N(1, <<1, 2>>, 0), N(2, <<1, 2, 3>>, 300), N(3, <<1, 2>>, 600)>>,
     edges |-> <<E(1, 1, 1, 2, 1, "blue"), E(2, 1, 1, 2, 2, "violet"),
                 E(3, 2, 1, 3, 1, "blue"), E(4, 2, 2, 3, 1, "blue")>>,
     groups |-> <<>>]

\* the diamond 1 -> {2, 3} -> 4
DiamondCanvas ==
    [nodes |-> <<N(1, <<1, 2>>, 0), N(2, <<1, 2>>, 500), N(3, <<1, 2>>, 500),
                 N(4, <<1, 2>>, 1000)>>,
     edges |-> <<E(1, 1, 1, 2, 1, "blue"), E(2, 1, 1, 3, 1, "violet"),
                 E(3, 2, 1, 4, 1, "blue"), E(4, 3, 1, 4, 1, "blue")>>,
     groups |-> <<G(1, <<3, 2>>), G(2, <<4, 1, 2>>)>>]

\* no operation has been applied yet
NoOp == [kind |-> "init", ids |-> <<>>, null |-> FALSE, log |-> <<>>,
         pre |-> [nodes |-> <<>>, edges |-> <<>>, groups |-> <<>>]]

\* no call of performLayout or getExecutionSequence is under way
NoCall == [pc |-> "none"]

\* the canvases the application starts from (restored from localStorage)
InitCanvases == {FreshCanvas, ShortcutCanvas, TwoPortCanvas, DiamondCanvas}

Init ==
    /\ \E c \in InitCanvases :
        /\ nodes = c.nodes
        /\ edges = c.edges
        /\ groups = c.groups
    /\ op = NoOp
    /\ run = NoCall

\* handleConnectEnd: ch is the connectingHandle, id the node the drag ends on,
\* handleId the port it ends on (0: the drag ended on the node body)
handleConnectEnd(ch, id, handleId) ==
    /\ Len(edges) < MaxEdges
    /\ ch.nodeId # id
    /\ LET sourceNodeId == IF ch.type = "source" THEN ch.nodeId ELSE id
           targetNodeId == IF ch.type = "source" THEN id ELSE ch.nodeId
           nodeS == FindNode(nodes, sourceNodeId)
           nodeT == FindNode(nodes, targetNodeId)
           srcGiven == IF ch.type = "source" THEN ch.handleId ELSE handleId
           tgtGiven == IF ch.type = "source" THEN handleId ELSE ch.handleId
           sourcePortId == IF srcGiven = 0 THEN nodeS.ports[Len(nodeS.ports)] ELSE srcGiven
           targetPortId == IF tgtGiven = 0 THEN nodeT.ports[1] ELSE tgtGiven
           Grow(n, portId) ==
               IF n.ports[Len(n.ports)] = portId
               THEN [n EXCEPT !.ports = Append(@, uuidv4(Range(@)))]
               ELSE n
       IN  /\ nodes' = [i \in 1..Len(nodes) |->
                          IF nodes[i].id = sourceNodeId THEN Grow(nodes[i], sourcePortId)
                          ELSE IF nodes[i].id = targetNodeId THEN Grow(nodes[i], targetPortId)
                          ELSE nodes[i]]
           /\ edges' = Append(edges, [id |-> uuidv4(EdgeIds(edges)),
                                      source |-> sourceNodeId,
                                      target |-> targetNodeId,
                                      sourceHandle |-> sourcePortId,
                                      targetHandle |-> targetPortId,
                                      color |-> ch.color])
           /\ groups' = groups
           /\ op' = Record("connect", <<sourceNodeId, targetNodeId>>, FALSE)
           /\ UNCHANGED run

Connect ==
    \E from \in 1..Len(nodes), to \in 1..Len(nodes) :
        \E fromPort \in Range(nodes[from].ports),
           toPort \in Range(nodes[to].ports) \cup {0},
           type \in {"source", "target"}, color \in Colors :
            handleConnectEnd([nodeId |-> nodes[from].id, handleId |-> fromPort,
                              type |-> type, color |-> color],
                             nodes[to].id, toPort)

\* handleEdgeDoubleClick, and the Delete key with an edge selected
handleEdgeDoubleClick(id) ==
    LET Other(e) == e.id # id
        newEdges == SelectSeq(edges, Other)
    IN  /\ edges' = newEdges
        /\ nodes' = [i \in 1..Len(nodes) |->
                        [nodes[i] EXCEPT !.ports = getCleanedPorts(nodes[i], newEdges)]]
        /\ groups' = groups
        /\ op' = Record("removeEdge", <<id>>, FALSE)
        /\ UNCHANGED run

RemoveEdge == \E i \in 1..Len(edges) : handleEdgeDoubleClick(edges[i].id)

handleDeleteNodes(ids) ==
    LET result == calculateDeletionEffects(nodes, edges, groups, ids)
    IN  /\ nodes' = result.nodes
        /\ edges' = result.edges
        /\ groups' = result.groups
        /\ op' = Record("delete", ids, FALSE)
        /\ UNCHANGED run

DeleteNodes ==
    \E ids \in IdLists(NodeIds(nodes) \cup AbsentIds, MaxSel) : handleDeleteNodes(ids)

\* if (mergeSelection.length < 2) return
handleConfirmMerge(mergeSelection) ==
    /\ Len(mergeSelection) >= 2
    /\ LET result == calculateMergeEffects(nodes, edges, groups, mergeSelection)
       IN
        IF result.null
        THEN /\ UNCHANGED <<nodes, edges, groups, run>>
             /\ op' = Record("merge", mergeSelection, TRUE)
        ELSE /\ nodes' = result.nodes
             /\ edges' = result.edges
             /\ groups' = result.groups
             /\ op' = Record("merge", mergeSelection, FALSE)
             /\ UNCHANGED run

Merge ==
    \E ids \in IdLists(NodeIds(nodes) \cup AbsentIds, MaxSel) : handleConfirmMerge(ids)

Next ==
    \/ Len(op.log) < MaxOps /\ Connect
    \/ Len(op.log) < MaxOps /\ RemoveEdge
    \/ Len(op.log) < MaxOps /\ DeleteNodes
    \/ Len(op.log) < MaxOps /\ Merge

Spec == Init /\ [][Next]_vars

(* ---------------- getCleanedPorts on its own inputs --------------------- *)
\* the edges of node 1 for use, which says of each port whether an edge leaves
\* it, enters it, both or neither; and an edge between two other nodes
RECURSIVE EdgesFor(_, _, _)
EdgesFor(use, p, made) ==
    IF p > Len(use) THEN Append(made, E(Len(made) + 1, 2, 1, 3, 1, "blue"))
    ELSE LET out == E(Len(made) + 1, 1, p, 2, 1, "blue")
             in == E(Len(made) + 1, 2, 1, 1, p, "violet")
             in2 == E(Len(made) + 2, 2, 1, 1, p, "violet")
         IN  EdgesFor(use, p + 1,
                 IF use[p] = "source" THEN Append(made, out)
                 ELSE IF use[p] = "target" THEN Append(made, in)
                 ELSE IF use[p] = "both" THEN made \o <<out, in2>>
                 ELSE made)

InitPorts ==
    /\ \E k \in 1..MaxPortList :
        \E use \in [1..k -> {"none", "source", "target", "both"}] :
            /\ nodes = <<N(1, [i \in 1..k |-> i], 0)>>
            /\ edges = EdgesFor(use, 1, <<>>)
    /\ groups = <<>>
    /\ op = NoOp
    /\ run = NoCall

\* nodes.map(n => ({...n, ports: getCleanedPorts(n, edges)}))
CleanPorts ==
    /\ op.kind = "init"
    /\ nodes' = [i \in 1..Len(nodes) |->
                    [nodes[i] EXCEPT !.ports = getCleanedPorts(nodes[i], edges)]]
    /\ UNCHANGED <<edges, groups, run>>
    /\ op' = Record("clean", <<nodes[1].id>>, FALSE)

NextPorts == CleanPorts

SpecPorts == InitPorts /\ [][NextPorts]_vars

(* ----------------------------- performLayout --------------------------- *)
\* the most nodes handed to performLayout
MaxLayoutNodes == 3
\* the longest edge list handed to performLayout
MaxLayoutEdges == 3
BASE_HORIZONTAL_SPACING == 80
BASE_VERTICAL_SPACING == 50
COLLAPSED_WIDTH == 220
COLLAPSED_HEIGHT == 70
DEFAULT_WIDTH == 300
DEFAULT_HEIGHT == 150
PORT_ROW == 28
PORT_PAD == 45
\* originX and originY
ORIGIN == 100

Max(S) == CHOOSE m \in S : \A x \in S : x <= m

RECURSIVE SumSeq(_)
SumSeq(s) == IF s = <<>> THEN 0 ELSE Head(s) + SumSeq(Tail(s))

\* the indexes of keys in the order of a stable ascending sort
StableOrder(keys) ==
    LET n == Len(keys)
        Before(i, j) == keys[i] < keys[j] \/ (keys[i] = keys[j] /\ i < j)
    IN  [r \in 1..n |->
            CHOOSE i \in 1..n : Cardinality({j \in 1..n : Before(j, i)}) = r - 1]

\* mutant: the source of an edge is not looked up in targetNodeIds
RelaxAnySource(acc, e, targetNodeIds) ==
    IF e.target \in targetNodeIds
    THEN LET uLvl == IF e.source \in targetNodeIds THEN acc.levels[e.source] ELSE 0
             vLvl == acc.levels[e.target]
         IN  IF vLvl < uLvl + 1
             THEN [levels |-> [acc.levels EXCEPT ![e.target] = uLvl + 1],
                   changed |-> TRUE]
             ELSE acc
    ELSE acc

\* the body of targetEdges.forEach for one edge; acc is [levels, changed]
Relax(acc, e, targetNodeIds) ==
    IF e.source \in targetNodeIds /\ e.target \in targetNodeIds
    THEN LET uLvl == acc.levels[e.source]
             vLvl == acc.levels[e.target]
         IN  IF vLvl < uLvl + 1
             THEN [levels |-> [acc.levels EXCEPT ![e.target] = uLvl + 1],
                   changed |-> TRUE]
             ELSE acc
    ELSE acc

\* one pass of the leveling loop over the edge list, in its order
RECURSIVE LevelPass(_, _, _)
LevelPass(acc, es, targetNodeIds) ==
    IF es = <<>> THEN acc
    ELSE LevelPass(Relax(acc, Head(es), targetNodeIds), Tail(es), targetNodeIds)

\* mutant: the edge list is gone through once
PassCapSingle(n) == 1

\* mutant: the loop runs twice as many passes
PassCapDouble(n) == 2 * n + 2

\* the loop runs while i < targetNodes.length + 1
PassCap(n) == n + 1

\* the leveling loop from pass i on
RECURSIVE AssignLevels(_, _, _, _, _)
AssignLevels(lv, es, targetNodeIds, i, n) ==
    IF i >= PassCap(n) THEN lv
    ELSE LET pass == LevelPass([levels |-> lv, changed |-> FALSE], es, targetNodeIds)
         IN  IF ~pass.changed THEN pass.levels
             ELSE AssignLevels(pass.levels, es, targetNodeIds, i + 1, n)

InitialLevels(ns) == [id \in NodeIds(ns) |-> 0]

\* n.collapsed ? COLLAPSED_WIDTH : (n.width || 300)
WidthOf(n) ==
    IF n.collapsed THEN COLLAPSED_WIDTH
    ELSE IF n.width = 0 THEN DEFAULT_WIDTH ELSE n.width

\* mutant: a collapsed node counts with the height it has when expanded
HeightOfExpanded(n) ==
    IF n.height = 0 THEN DEFAULT_HEIGHT ELSE n.height

\* node.collapsed ? Math.max(COLLAPSED_HEIGHT, ports * 28 + 45) : (node.height || 150)
HeightOf(n) ==
    IF n.collapsed THEN Max({COLLAPSED_HEIGHT, Len(n.ports) * PORT_ROW + PORT_PAD})
    ELSE IF n.height = 0 THEN DEFAULT_HEIGHT ELSE n.height

\* levelGroups: for each level the ids of its nodes, sorted by y
LevelGroups(ns, lv) ==
    LET maxLevel == Max({lv[id] : id \in NodeIds(ns)})
        order == StableOrder([i \in 1..Len(ns) |-> ns[i].y])
        sortedIds == [r \in 1..Len(ns) |-> ns[order[r]].id]
    IN  [l \in 0..maxLevel |->
            LET InLevel(id) == lv[id] = l IN SelectSeq(sortedIds, InLevel)]

\* maxWidthInLevel
ColumnWidth(ns, ids) ==
    Max({WidthOf(FindNode(ns, ids[k])) : k \in 1..Len(ids)} \cup {DEFAULT_WIDTH})

\* the body of targetNodes.map for one node
Placed(node, ns, levelGroups, lv, originX, originY) ==
    LET level == lv[node.id]
        group == levelGroups[level]
        indexInGroup == (CHOOSE k \in 1..Len(group) : group[k] = node.id) - 1
        xPos == originX + SumSeq([i \in 1..level |->
                    ColumnWidth(ns, levelGroups[i - 1]) + BASE_HORIZONTAL_SPACING])
        yPos == originY + SumSeq([j \in 1..indexInGroup |->
                    HeightOf(FindNode(ns, group[j])) + BASE_VERTICAL_SPACING])
    IN  [node EXCEPT !.x = xPos, !.y = yPos]

\* 2. Coordinate Assignment
Coordinates(ns, lv, originX, originY) ==
    LET levelGroups == LevelGroups(ns, lv)
    IN  [k \in 1..Len(ns) |-> Placed(ns[k], ns, levelGroups, lv, originX, originY)]

performLayout(targetNodes, targetEdges, originX, originY) ==
    IF Len(targetNodes) = 0 THEN <<>>
    ELSE Coordinates(targetNodes,
             AssignLevels(InitialLevels(targetNodes), targetEdges,
                          NodeIds(targetNodes), 0, Len(targetNodes)),
             originX, originY)

\* a node with the fields performLayout reads
LN(id, ports, x, y, width, height, collapsed) ==
    [id |-> id, ports |-> ports, x |-> x, y |-> y, width |-> width,
     height |-> height, collapsed |-> collapsed]

\* the looks of a node: an expanded node without size, an expanded node with a
\* size, a collapsed node with three ports
Shapes ==
    <<[ports |-> <<1>>, y |-> 40, width |-> 0, height |-> 0, collapsed |-> FALSE],
      [ports |-> <<1, 2>>, y |-> 10, width |-> 500, height |-> 200, collapsed |-> FALSE],
      [ports |-> <<1, 2, 3>>, y |-> 40, width |-> 400, height |-> 90, collapsed |-> TRUE]>>

\* k nodes with ids 1..k; node i looks like Shapes[pick[i]]
LayoutNodes(k, pick) ==
    [i \in 1..k |->
        LET s == Shapes[pick[i]]
        IN  LN(i, s.ports, 700 - 100 * i, s.y, s.width, s.height, s.collapsed)]

\* no node, and 1..MaxLayoutNodes nodes that look alike
LayoutNodeListsAlike ==
    {LayoutNodes(k, [i \in 1..k |-> 1]) : k \in 0..MaxLayoutNodes}

\* the node lists handed to performLayout: nodes that look alike or differ
LayoutNodeLists ==
    LayoutNodeListsAlike
    \cup {LayoutNodes(k, [i \in 1..k |-> ((i + r) % Len(Shapes)) + 1]) :
            k \in 1..MaxLayoutNodes, r \in 0..1}

\* the ids an edge can name: the ids of the target nodes and one more
LayoutEndIds == 1..(MaxLayoutNodes + 1)

\* the edge lists: every order, repeated pairs, self-loops and cycles included
LayoutEdgeLists ==
    {[i \in 1..Len(s) |-> E(i, s[i][1], 1, s[i][2], 1, "blue")] :
        s \in Selections(LayoutEndIds \X LayoutEndIds, MaxLayoutEdges)}

LayoutCall == [pc |-> "start", i |-> 0, passes |-> 0, levels |-> <<>>,
               result |-> <<>>]

InitLayout ==
    /\ nodes \in LayoutNodeLists
    /\ edges \in LayoutEdgeLists
    /\ groups = <<>>
    /\ op = NoOp
    /\ run = LayoutCall

\* the leveling loop reads the ids of the nodes only
InitLeveling ==
    /\ nodes \in LayoutNodeListsAlike
    /\ edges \in LayoutEdgeLists
    /\ groups = <<>>
    /\ op = NoOp
    /\ run = LayoutCall

\* if (targetNodes.length === 0) return []; levels.set(n.id, 0)
LayoutStart ==
    /\ run.pc = "start"
    /\ run' = IF Len(nodes) = 0
              THEN [run EXCEPT !.pc = "done"]
              ELSE [run EXCEPT !.pc = "level", !.levels = InitialLevels(nodes)]
    /\ UNCHANGED <<nodes, edges, groups, op>>

\* one pass of the leveling loop; the loop is left when nothing changed.
\* run.passes counts the passes made
LevelingPass ==
    /\ run.pc = "level"
    /\ run.i < PassCap(Len(nodes))
    /\ LET pass == LevelPass([levels |-> run.levels, changed |-> FALSE],
                             edges, NodeIds(nodes))
       IN  run' = IF ~pass.changed
                  THEN [run EXCEPT !.pc = "place", !.levels = pass.levels,
                                   !.passes = run.passes + 1]
                  ELSE [run EXCEPT !.i = run.i + 1, !.levels = pass.levels,
                                   !.passes = run.passes + 1]
    /\ UNCHANGED <<nodes, edges, groups, op>>

\* the loop condition fails
LevelingExit ==
    /\ run.pc = "level"
    /\ run.i >= PassCap(Len(nodes))
    /\ run' = [run EXCEPT !.pc = "place"]
    /\ UNCHANGED <<nodes, edges, groups, op>>

AssignCoordinates ==
    /\ run.pc = "place"
    /\ run' = [run EXCEPT !.pc = "done",
                          !.result = Coordinates(nodes, run.levels, ORIGIN, ORIGIN)]
    /\ UNCHANGED <<nodes, edges, groups, op>>

NextLayout ==
    \/ LayoutStart
    \/ LevelingPass
    \/ LevelingExit
    \/ AssignCoordinates

SpecLayout == InitLayout /\ [][NextLayout]_vars

\* the call runs to its end
SpecLayoutLive == InitLeveling /\ [][NextLayout]_vars /\ WF_vars(NextLayout)

(* -------------------------- getExecutionSequence ----------------------- *)
\* the longest edge list handed to getExecutionSequence
MaxWalkEdges == 4

\* a stack entry without inputPortId
NoPort == 0

\* mutant: the port the traversal came through is not compared
IncomingAnyPort(es, nodeId, inputPortId) ==
    LET Hit(e) == e.target = nodeId IN SelectSeq(es, Hit)

\* mutant: only the first matching edge is taken (find for filter)
IncomingFirst(es, nodeId, inputPortId) ==
    LET Hit(e) == /\ e.target = nodeId
                  /\ inputPortId # NoPort => e.targetHandle = inputPortId
        hits == SelectSeq(es, Hit)
    IN  IF hits = <<>> THEN <<>> ELSE <<hits[1]>>

\* edges.filter: the edges into nodeId, on inputPortId when there is one
Incoming(es, nodeId, inputPortId) ==
    LET Hit(e) == /\ e.target = nodeId
                  /\ inputPortId # NoPort => e.targetHandle = inputPortId
    IN  SelectSeq(es, Hit)

\* mutant: the top of the stack is read and left on the stack
PopAndPushKeepTop(stack, incoming) ==
    stack \o [k \in 1..Len(incoming) |->
                [nodeId |-> incoming[k].source,
                 inputPortId |-> incoming[k].sourceHandle]]

\* stack.pop() and the stack.push of incoming.forEach
PopAndPush(stack, incoming) ==
    SubSeq(stack, 1, Len(stack) - 1)
    \o [k \in 1..Len(incoming) |->
            [nodeId |-> incoming[k].source,
             inputPortId |-> incoming[k].sourceHandle]]

\* mutant: the visited nodes are returned in the order of the nodes array
SequenceUnsorted(ns, visitedNodes) ==
    LET Visited(n) == n.id \in visitedNodes IN SelectSeq(ns, Visited)

\* nodes.filter(n => visitedNodes.has(n.id)).sort((a, b) => a.position.x - b.position.x)
Sequence(ns, visitedNodes) ==
    LET Visited(n) == n.id \in visitedNodes
        found == SelectSeq(ns, Visited)
        order == StableOrder([k \in 1..Len(found) |-> found[k].x])
    IN  [r \in 1..Len(found) |-> found[order[r]]]

\* the edges between the nodes 1, 2, 3 and 4: the diamond 1 -> {2, 3} -> 4
\* through port 1 of every node, the same edges through other ports of 2 and 4,
\* a shortcut, an edge back to 1, and a self-loop
WalkEdges ==
    {<<1, 1, 2, 1>>, <<1, 1, 3, 1>>, <<2, 1, 4, 1>>, <<3, 1, 4, 1>>,
     <<1, 1, 2, 2>>, <<2, 2, 4, 2>>, <<1, 2, 4, 2>>, <<4, 1, 1, 1>>,
     <<2, 1, 2, 1>>}

\* the edge lists: up to MaxWalkEdges different edges in any order
WalkEdgeLists ==
    {[i \in 1..Len(s) |-> E(i, s[i][1], s[i][2], s[i][3], s[i][4], "blue")] :
        s \in IdLists(WalkEdges, MaxWalkEdges) \cup {<<>>}}

\* four nodes from left to right, and four nodes placed against the order of
\* the array, two of them at the same x
WalkNodeLists ==
    {<<N(1, <<1, 2, 3>>, 0), N(2, <<1, 2, 3>>, 400), N(3, <<1, 2, 3>>, 800),
       N(4, <<1, 2, 3>>, 1200)>>,
     <<N(1, <<1, 2, 3>>, 700), N(2, <<1, 2, 3>>, 300), N(3, <<1, 2, 3>>, 300),
       N(4, <<1, 2, 3>>, 0)>>}

\* the steps of one call that are followed
StepCap == 2 ^ MaxWalkEdges

WalkCall(triggerNodeId) ==
    [pc |-> "walk", trigger |-> triggerNodeId,
     stack |-> <<[nodeId |-> triggerNodeId, inputPortId |-> NoPort]>>,
     visitedNodes |-> {}, ancestorEdges |-> {}, pops |-> 0, sequence |-> <<>>]

InitWalk ==
    /\ nodes \in WalkNodeLists
    /\ edges \in WalkEdgeLists
    /\ groups = <<>>
    /\ op = NoOp
    /\ \E triggerNodeId \in NodeIds(nodes) \cup AbsentIds :
            run = WalkCall(triggerNodeId)

\* the traversal reads ids and handles only
InitTraversal ==
    /\ nodes = CHOOSE ns \in WalkNodeLists : ns[1].x = 0
    /\ edges \in WalkEdgeLists
    /\ groups = <<>>
    /\ op = NoOp
    /\ \E triggerNodeId \in NodeIds(nodes) \cup AbsentIds :
            run = WalkCall(triggerNodeId)

\* the body of while (stack.length > 0); run.pops counts the entries popped
WalkStep ==
    /\ run.pc = "walk"
    /\ Len(run.stack) > 0
    /\ run.pops < StepCap
    /\ LET top == run.stack[Len(run.stack)]
           incoming == Incoming(edges, top.nodeId, top.inputPortId)
       IN  run' = [run EXCEPT
                !.stack = PopAndPush(run.stack, incoming),
                !.visitedNodes = @ \cup {top.nodeId},
                !.ancestorEdges = @ \cup EdgeIds(incoming),
                !.pops = @ + 1]
    /\ UNCHANGED <<nodes, edges, groups, op>>

\* the stack is empty: the sequence is built and returned
WalkReturn ==
    /\ run.pc = "walk"
    /\ Len(run.stack) = 0
    /\ run' = [run EXCEPT !.pc = "done",
                          !.sequence = Sequence(nodes, run.visitedNodes)]
    /\ UNCHANGED <<nodes, edges, groups, op>>

NextWalk ==
    \/ WalkStep
    \/ WalkReturn

SpecWalk == InitWalk /\ [][NextWalk]_vars

\* the call goes on while it can
SpecWalkLive == InitTraversal /\ [][NextWalk]_vars /\ WF_vars(NextWalk)

(* ----------------- calculateMergeEffects on its own inputs -------------- *)
\* the longest list of merge ids
MaxMergeIds == 3

\* the contents of a node: empty, blank, a word, a word after a space
Texts == {<<>>, <<" ">>, <<"a">>, <<" ", "b">>}

NC(id, ports, x, content) == [N(id, ports, x) EXCEPT !.content = content]

\* the diamond 1 -> {2, 3} -> 4 through port 1 of every node
MergeDiamond ==
    <<E(1, 1, 1, 2, 1, "blue"), E(2, 1, 1, 3, 1, "violet"),
      E(3, 2, 1, 4, 1, "blue"), E(4, 3, 1, 4, 1, "violet")>>

\* the diamond, 1 -> 2 connected a second time on the same ports, and 2 -> 3
MergeDiamondTwice ==
    MergeDiamond \o <<E(5, 1, 1, 2, 1, "violet"), E(6, 2, 2, 3, 1, "blue")>>

MergeEdgeLists == {<<>>, MergeDiamond, MergeDiamondTwice}

InitMerge ==
    /\ \E c \in [1..3 -> Texts] :
            nodes = <<NC(1, <<1, 2>>, 300, c[1]), NC(2, <<1, 2, 3>>, 100, c[2]),
                      NC(3, <<1, 2>>, 200, c[3]), NC(4, <<1, 2, 3>>, 900, <<"a">>)>>
    /\ edges \in MergeEdgeLists
    /\ groups = <<G(1, <<3, 1, 2>>), G(2, <<2>>)>>
    /\ op = NoOp
    /\ \E mergeNodeIds \in IdLists(NodeIds(nodes) \cup AbsentIds, MaxMergeIds) \cup {<<>>} :
            run = [pc |-> "merge", mergeNodeIds |-> mergeNodeIds,
                   result |-> NullResult]

\* the call returns
MergeReturn ==
    /\ run.pc = "merge"
    /\ run' = [run EXCEPT !.pc = "done",
                  !.result = calculateMergeEffects(nodes, edges, groups,
                                                   run.mergeNodeIds)]
    /\ UNCHANGED <<nodes, edges, groups, op>>

NextMerge == MergeReturn

SpecMerge == InitMerge /\ [][NextMerge]_vars

(* --------------- calculateDeletionEffects on its own inputs ------------- *)
\* the longest edge list handed to calculateDeletionEffects on its own
MaxDeleteEdges == 4
\* the longest list of ids to delete
MaxDeleteIds == 2

\* the edges between the nodes 1, 2, 3 and 4: the chain 1 -> 2 -> 3 -> 4, an
\* edge back from 3 to 1, the shortcut 1 -> 3, a second edge into 2, and
\* 1 -> 2 into another port of 2
DeleteEdges ==
    {<<1, 1, 2, 1>>, <<2, 1, 3, 1>>, <<3, 1, 4, 1>>, <<3, 1, 1, 1>>,
     <<1, 1, 3, 1>>, <<4, 1, 2, 1>>, <<1, 1, 2, 2>>}

DeleteEdgeLists ==
    {[i \in 1..Len(s) |-> E(i, s[i][1], s[i][2], s[i][3], s[i][4],
                            IF i % 2 = 1 THEN "blue" ELSE "violet")] :
        s \in IdLists(DeleteEdges, MaxDeleteEdges) \cup {<<>>}}

\* where the four nodes are: a row with gaps of 500, and node 4 left of node 1
DeleteRows == {<<0, 500, 1000, 1500>>, <<500, 250, 1200, 0>>}

\* the ports of a node that has the edges es: the ports up to the last one in
\* use and the free port after it
PortsFor(id, es) ==
    LET last == Max(ActivePorts(id, es) \cup {0})
    IN  [p \in 1..(last + 1) |-> p]

\* a node with a place on the y axis
DN(id, ports, x, y) ==
    [id |-> id, ports |-> ports, x |-> x, y |-> y, content |-> <<>>]

InitDelete ==
    /\ edges \in DeleteEdgeLists
    /\ \E row \in DeleteRows :
            nodes = [i \in 1..4 |-> DN(i, PortsFor(i, edges), row[i], 100 * i)]
    /\ groups = <<G(1, <<3, 1, 2>>), G(2, <<2>>)>>
    /\ op = NoOp
    /\ \E deletedNodeIds \in IdLists(NodeIds(nodes) \cup AbsentIds, MaxDeleteIds) :
            run = [pc |-> "delete", deletedNodeIds |-> deletedNodeIds,
                   result |-> [nodes |-> <<>>, edges |-> <<>>, groups |-> <<>>,
                               moves |-> <<>>]]

\* the call returns
DeleteReturn ==
    /\ run.pc = "delete"
    /\ run' = [run EXCEPT !.pc = "done",
                  !.result = calculateDeletionEffects(nodes, edges, groups,
                                                      run.deletedNodeIds)]
    /\ UNCHANGED <<nodes, edges, groups, op>>

NextDelete == DeleteReturn

SpecDelete == InitDelete /\ [][NextDelete]_vars

(* the loop over bridgedEdges of calculateDeletionEffects, one step per call
   of shiftSubtreeLeft: run.stack holds the calls still to be made, the next
   one first, as the recursion makes them *)
\* the calls followed in one run
ShiftCap == (MaxDeleteEdges + 1) * (MaxDeleteEdges + 1)

ShiftCall(ns, es, deletedNodeIds) ==
    LET idsSet == Range(deletedNodeIds)
        bridgedEdges == BridgedEdges(ns, es, deletedNodeIds)
        Survives(n) == n.id \notin idsSet
    IN  [pc |-> "bridge", deletedNodeIds |-> deletedNodeIds,
         bridgedEdges |-> bridgedEdges,
         finalEdges |-> RemainingEdges(es, idsSet) \o bridgedEdges,
         nextNodes |-> SelectSeq(ns, Survives),
         movedNodesSet |-> {}, stack |-> <<>>, deltaX |-> 0,
         writes |-> <<>>, calls |-> 0]

InitShift ==
    /\ edges \in DeleteEdgeLists
    /\ \E row \in DeleteRows :
            nodes = [i \in 1..4 |-> DN(i, PortsFor(i, edges), row[i], 100 * i)]
    /\ groups = <<>>
    /\ op = NoOp
    /\ \E deletedNodeIds \in IdLists(NodeIds(nodes) \cup AbsentIds, MaxDeleteIds) :
            run = ShiftCall(nodes, edges, deletedNodeIds)

\* mutant: the guard on movedNodesSet is not there
HasMovedNever(movedNodesSet, rootId) == FALSE

\* movedNodesSet.has(rootId)
HasMoved(movedNodesSet, rootId) == rootId \in movedNodesSet

\* one turn of bridgedEdges.forEach, up to the call of shiftSubtreeLeft
BridgeStep ==
    /\ run.pc = "bridge"
    /\ run.stack = <<>>
    /\ run.bridgedEdges # <<>>
    /\ LET edge == Head(run.bridgedEdges)
           ids == NodeIds(run.nextNodes)
           found == edge.source \in ids /\ edge.target \in ids
           currentDist == FindNode(run.nextNodes, edge.target).x
                            - FindNode(run.nextNodes, edge.source).x
       IN  IF found /\ currentDist > IDEAL_GAP + 50
           THEN run' = [run EXCEPT !.bridgedEdges = Tail(@),
                                   !.stack = <<edge.target>>,
                                   !.deltaX = IDEAL_GAP - currentDist]
           ELSE run' = [run EXCEPT !.bridgedEdges = Tail(@)]
    /\ UNCHANGED <<nodes, edges, groups, op>>

\* one call of shiftSubtreeLeft, up to its calls for the children
ShiftStep ==
    /\ run.pc = "bridge"
    /\ run.stack # <<>>
    /\ run.calls < ShiftCap
    /\ LET rootId == Head(run.stack)
           FromRoot(e) == e.source = rootId
           outEdges == SelectSeq(run.finalEdges, FromRoot)
           children == [i \in 1..Len(outEdges) |-> outEdges[i].target]
       IN  IF HasMoved(run.movedNodesSet, rootId)
           THEN run' = [run EXCEPT !.stack = Tail(@), !.calls = @ + 1]
           ELSE IF rootId \in NodeIds(run.nextNodes)
           THEN run' = [run EXCEPT
                    !.movedNodesSet = @ \cup {rootId},
                    !.nextNodes = [i \in 1..Len(@) |->
                                      IF @[i].id = rootId
                                      THEN [@[i] EXCEPT !.x = @ + run.deltaX]
                                      ELSE @[i]],
                    !.writes = Append(@, [id |-> rootId, deltaX |-> run.deltaX]),
                    !.stack = children \o Tail(@),
                    !.calls = @ + 1]
           ELSE run' = [run EXCEPT !.movedNodesSet = @ \cup {rootId},
                                   !.stack = Tail(@), !.calls = @ + 1]
    /\ UNCHANGED <<nodes, edges, groups, op>>

\* the loop over bridgedEdges is over
ShiftReturn ==
    /\ run.pc = "bridge"
    /\ run.stack = <<>>
    /\ run.bridgedEdges = <<>>
    /\ run' = [run EXCEPT !.pc = "done"]
    /\ UNCHANGED <<nodes, edges, groups, op>>

NextShift ==
    \/ BridgeStep
    \/ ShiftStep
    \/ ShiftReturn

SpecShift == InitShift /\ [][NextShift]_vars

\* a step that can be taken is taken
SpecShiftLive == SpecShift /\ WF_vars(NextShift)

(* ---------- getExecutionSequence after deletions and merges ------------- *)
\* getExecutionSequence is called for a node of the canvas as it is now
SessionWalk ==
    /\ run = NoCall
    /\ \E triggerNodeId \in NodeIds(nodes) : run' = WalkCall(triggerNodeId)
    /\ UNCHANGED <<nodes, edges, groups, op>>

\* the body of while (stack.length > 0), the entries popped not being
\* counted, for a stack of at most MaxWalkEdges entries
SessionStep ==
    /\ run.pc = "walk"
    /\ Len(run.stack) > 0
    /\ Len(run.stack) <= MaxWalkEdges
    /\ LET top == run.stack[Len(run.stack)]
           incoming == Incoming(edges, top.nodeId, top.inputPortId)
       IN  run' = [run EXCEPT
                !.stack = PopAndPush(run.stack, incoming),
                !.visitedNodes = @ \cup {top.nodeId},
                !.ancestorEdges = @ \cup EdgeIds(incoming)]
    /\ UNCHANGED <<nodes, edges, groups, op>>

NextSession ==
    \/ run = NoCall /\ Len(op.log) < MaxOps /\ DeleteNodes
    \/ run = NoCall /\ Len(op.log) < MaxOps /\ Merge
    \/ SessionWalk
    \/ SessionStep
    \/ WalkReturn

\* a call of getExecutionSequence goes on while it can
SpecSession ==
    Init /\ [][NextSession]_vars /\ WF_vars(SessionStep) /\ WF_vars(WalkReturn)

(* ----------------- handleGenerate and its cancellation ------------------ *)
(* run is [pc |-> "generate", abortControllers, requests, applied]:
   abortControllers[n] is the request whose controller is registered under
   node n (0 when there is none); a request is "flight" while generateContent
   is awaited, "saving" while saveImage is awaited, then "settled"; applied
   holds the requests whose result was written with setNodes *)
\* the calls of handleGenerate followed
MaxRequests == 2

\* two nodes, one edge and a group
GenerateCanvas ==
    [nodes |-> <<N(1, <<1, 2>>, 0), N(2, <<1, 2>>, 500)>>,
     edges |-> <<E(1, 1, 1, 2, 1, "blue")>>,
     groups |-> <<G(1, <<1, 2>>)>>]

GenerateNodeIds == NodeIds(GenerateCanvas.nodes)

InitGenerate ==
    /\ nodes = GenerateCanvas.nodes
    /\ edges = GenerateCanvas.edges
    /\ groups = GenerateCanvas.groups
    /\ op = NoOp
    /\ run = [pc |-> "generate",
              abortControllers |-> [n \in GenerateNodeIds |-> 0],
              requests |-> <<>>, applied |-> {}]

\* controller.abort() for the controller registered under n, if there is one
AbortRegistered(requests, abortControllers, n) ==
    [r \in 1..Len(requests) |->
        IF r = abortControllers[n]
        THEN [requests[r] EXCEPT !.signalAborted = TRUE]
        ELSE requests[r]]

\* abortControllersRef.current.delete(triggerNodeId)
DeleteController(abortControllers, n) == [abortControllers EXCEPT ![n] = 0]

\* the node list with the response written to the trigger node
WithResponse(ns, n) ==
    [i \in 1..Len(ns) |->
        IF ns[i].id = n THEN [ns[i] EXCEPT !.content = Append(@, "a")] ELSE ns[i]]

\* handleGenerate up to await generateContent; kind is what the provider
\* will answer with
GenerateStart(n, kind) ==
    /\ run.pc = "generate"
    /\ Len(run.requests) < MaxRequests
    /\ n \in NodeIds(nodes)
    /\ LET r == Len(run.requests) + 1
       IN  run' = [run EXCEPT
                !.requests = Append(AbortRegistered(@, run.abortControllers, n),
                                [node |-> n, kind |-> kind, stage |-> "flight",
                                 signalAborted |-> FALSE, latestNodes |-> <<>>]),
                !.abortControllers = [@ EXCEPT ![n] = r]]
    /\ UNCHANGED <<nodes, edges, groups, op>>

\* generateContent has answered with text: handleGenerate runs to its end
ResolveText(r) ==
    /\ run.pc = "generate"
    /\ r \in 1..Len(run.requests)
    /\ run.requests[r].stage = "flight"
    /\ run.requests[r].kind = "text"
    /\ LET n == run.requests[r].node
           found == n \in NodeIds(nodes)
       IN  /\ run' = [run EXCEPT
                    !.abortControllers = DeleteController(@, n),
                    !.requests[r].stage = "settled",
                    !.applied = IF found
                                THEN @ \cup {[request |-> r, present |-> TRUE]}
                                ELSE @]
           /\ nodes' = IF found THEN WithResponse(nodes, n) ELSE nodes
    /\ UNCHANGED <<edges, groups, op>>

\* generateContent has answered with an image: handleGenerate runs up to
\* await saveImage
ResolveImage(r) ==
    /\ run.pc = "generate"
    /\ r \in 1..Len(run.requests)
    /\ run.requests[r].stage = "flight"
    /\ run.requests[r].kind = "image"
    /\ LET n == run.requests[r].node
           found == n \in NodeIds(nodes)
       IN  run' = [run EXCEPT
                !.abortControllers = DeleteController(@, n),
                !.requests[r].stage = IF found THEN "saving" ELSE "settled",
                !.requests[r].latestNodes = IF found THEN nodes ELSE <<>>]
    /\ UNCHANGED <<nodes, edges, groups, op>>

\* saveImage is done: setNodes(latestNodes), then the finally block
ImageSaved(r) ==
    /\ run.pc = "generate"
    /\ r \in 1..Len(run.requests)
    /\ run.requests[r].stage = "saving"
    /\ LET n == run.requests[r].node
       IN  /\ run' = [run EXCEPT
                    !.abortControllers = DeleteController(@, n),
                    !.requests[r].stage = "settled",
                    !.requests[r].latestNodes = <<>>,
                    !.applied = @ \cup {[request |-> r,
                                         present |-> n \in NodeIds(nodes)]}]
           /\ nodes' = WithResponse(run.requests[r].latestNodes, n)
    /\ UNCHANGED <<edges, groups, op>>

\* saveImage throws: the catch block, then the finally block
ImageFailed(r) ==
    /\ run.pc = "generate"
    /\ r \in 1..Len(run.requests)
    /\ run.requests[r].stage = "saving"
    /\ run' = [run EXCEPT
            !.abortControllers = DeleteController(@, run.requests[r].node),
            !.requests[r].stage = "settled",
            !.requests[r].latestNodes = <<>>]
    /\ UNCHANGED <<nodes, edges, groups, op>>

handleCancelGenerate(id) ==
    /\ run.pc = "generate"
    /\ id \in NodeIds(nodes)
    /\ run.abortControllers[id] # 0
    /\ run' = [run EXCEPT
            !.requests = AbortRegistered(@, run.abortControllers, id),
            !.abortControllers = DeleteController(@, id)]
    /\ UNCHANGED <<nodes, edges, groups, op>>

\* handleDeleteNodes with the cancelling of the pending generations
DeleteGenerating(id) ==
    /\ run.pc = "generate"
    /\ id \in NodeIds(nodes)
    /\ LET result == calculateDeletionEffects(nodes, edges, groups, <<id>>)
       IN  /\ nodes' = result.nodes
           /\ edges' = result.edges
           /\ groups' = result.groups
    /\ run' = [run EXCEPT
            !.requests = AbortRegistered(@, run.abortControllers, id),
            !.abortControllers = DeleteController(@, id)]
    /\ UNCHANGED op

NextGenerate ==
    \/ \E n \in GenerateNodeIds : \E kind \in {"text", "image"} : GenerateStart(n, kind)
    \/ \E r \in 1..MaxRequests : ResolveText(r)
    \/ \E r \in 1..MaxRequests : ResolveImage(r)
    \/ \E r \in 1..MaxRequests : ImageSaved(r)
    \/ \E r \in 1..MaxRequests : ImageFailed(r)
    \/ \E id \in GenerateNodeIds : handleCancelGenerate(id)
    \/ \E id \in GenerateNodeIds : DeleteGenerating(id)

SpecGenerate == InitGenerate /\ [][NextGenerate]_vars

(* ------------------- the objects the functions write -------------------- *)
(* run is [pc |-> "alias", fn, ids, currentEdges, heap]: heap maps the
   references <<kind, id, copy>> to the objects: copy 0 is an object of the
   caller, copy 1 an object the call has made. The statements of graph.ts
   that write to an object another statement has not just made are
   newPorts.pop(), the sort of sortedNodes and node.position.x += deltaX *)
PositionRef(id) == <<"position", id, 0>>
PortsRef(id) == <<"ports", id, 0>>
NodeIdsRef(gid) == <<"nodeIds", gid, 0>>
NodesRef == <<"nodes", 0, 0>>
EdgesRef == <<"edges", 0, 0>>
GroupsRef == <<"groups", 0, 0>>

\* the object the call makes from the object at ref
Copy(ref) == <<ref[1], ref[2], 1>>

\* the objects of the caller
InputRefs(ns, gs) ==
    {NodesRef, EdgesRef, GroupsRef}
        \cup {PositionRef(id) : id \in NodeIds(ns)}
        \cup {PortsRef(id) : id \in NodeIds(ns)}
        \cup {NodeIdsRef(gs[k].id) : k \in 1..Len(gs)}

InputHeap(ns, es, gs) ==
    [ref \in InputRefs(ns, gs) |->
        IF ref = NodesRef THEN [i \in 1..Len(ns) |-> ns[i].id]
        ELSE IF ref = EdgesRef THEN es
        ELSE IF ref = GroupsRef THEN [k \in 1..Len(gs) |-> gs[k].id]
        ELSE IF ref[1] = "position"
             THEN [x |-> FindNode(ns, ref[2]).x, y |-> FindNode(ns, ref[2]).y]
        ELSE IF ref[1] = "ports" THEN FindNode(ns, ref[2]).ports
        ELSE (CHOOSE g \in Range(gs) : g.id = ref[2]).nodeIds]

\* a new object at ref with the value
Allocate(heap, ref, value) ==
    [r \in DOMAIN heap \cup {ref} |-> IF r = ref THEN value ELSE heap[r]]

\* mutant: no copy is made, the object itself is used
Shared(ref) == ref

\* { ...n.position }, [...node.ports], [...targetNodes]
Spread(ref) == Copy(ref)

\* the heap after const o = spread of the object at ref
AfterSpread(heap, ref) ==
    IF Spread(ref) \in DOMAIN heap THEN heap
    ELSE Allocate(heap, Spread(ref), heap[ref])

\* getCleanedPorts: newPorts = [...node.ports], then newPorts.pop() in the loop
PortsCleaned(heap, id, currentEdges) ==
    LET newPorts == Spread(PortsRef(id))
        copied == AfterSpread(heap, PortsRef(id))
    IN  [copied EXCEPT ![newPorts] =
            TrimPorts(@, ActivePorts(id, currentEdges))]

RECURSIVE PortsCleanedAll(_, _, _)
PortsCleanedAll(heap, ids, currentEdges) ==
    IF ids = <<>> THEN heap
    ELSE PortsCleanedAll(PortsCleaned(heap, Head(ids), currentEdges),
                         Tail(ids), currentEdges)

\* nodes.filter(...).map(n => ({ ...n, position: { ...n.position } }))
RECURSIVE PositionsCopied(_, _)
PositionsCopied(heap, ids) ==
    IF ids = <<>> THEN heap
    ELSE PositionsCopied(AfterSpread(heap, PositionRef(Head(ids))), Tail(ids))

\* node.position.x += deltaX for the writes of the shifting, in their order
RECURSIVE PositionsShifted(_, _)
PositionsShifted(heap, moves) ==
    IF moves = <<>> THEN heap
    ELSE PositionsShifted(
            [heap EXCEPT ![Spread(PositionRef(Head(moves).id))].x =
                            @ + Head(moves).deltaX],
            Tail(moves))

\* the objects after calculateDeletionEffects
HeapAfterDeletion(heap, ns, es, gs, deletedNodeIds) ==
    LET result == calculateDeletionEffects(ns, es, gs, deletedNodeIds)
        survivors == [i \in 1..Len(result.nodes) |-> result.nodes[i].id]
    IN  PortsCleanedAll(
            PositionsShifted(PositionsCopied(heap, survivors), result.moves),
            survivors, result.edges)

\* the objects after performLayout: sortedNodes is sorted in place, each node
\* returned has a new position object
RECURSIVE PositionsPlaced(_, _)
PositionsPlaced(heap, placed) ==
    IF placed = <<>> THEN heap
    ELSE PositionsPlaced(
            Allocate(heap, Copy(PositionRef(Head(placed).id)),
                     [x |-> Head(placed).x, y |-> Head(placed).y]),
            Tail(placed))

HeapAfterLayout(heap, ns, es) ==
    IF Len(ns) = 0 THEN heap
    ELSE LET sortedNodes == Spread(NodesRef)
             copied == AfterSpread(heap, NodesRef)
             order == StableOrder([i \in 1..Len(ns) |-> ns[i].y])
             sorted == [copied EXCEPT ![sortedNodes] =
                            [r \in 1..Len(ns) |-> @[order[r]]]]
         IN  PositionsPlaced(sorted, performLayout(ns, es, ORIGIN, ORIGIN))

\* the objects after calculateMergeEffects: newNode has a new position object
HeapAfterMerge(heap, ns, es, gs, mergeNodeIds) ==
    LET result == calculateMergeEffects(ns, es, gs, mergeNodeIds)
    IN  IF result.null THEN heap
        ELSE LET nodesToMerge == NodesToMerge(ns, mergeNodeIds)
             IN  Allocate(heap, Copy(PositionRef(result.newNode.id)),
                    [x |-> result.newNode.x,
                     y |-> Min({nodesToMerge[i].y : i \in 1..Len(nodesToMerge)})])

\* a node with every field the four functions read
AN(id, ports, x, y) ==
    [id |-> id, ports |-> ports, x |-> x, y |-> y, content |-> <<>>,
     width |-> 0, height |-> 0, collapsed |-> FALSE]

\* the heights of the four nodes before a layout
AliasRows == {<<40, 30, 20, 10>>, <<10, 40, 10, 40>>}

InitAlias ==
    /\ edges \in DeleteEdgeLists
    /\ \E row \in DeleteRows : \E ys \in AliasRows :
            nodes = [i \in 1..4 |-> AN(i, PortsFor(i, edges), row[i], ys[i])]
    /\ groups = <<G(1, <<3, 1, 2>>), G(2, <<2>>)>>
    /\ op = NoOp
    /\ \E fn \in {"delete", "merge", "layout", "ports"} :
       \E ids \in IF fn = "layout" THEN {<<>>}
                  ELSE IF fn = "ports" THEN {<<id>> : id \in NodeIds(nodes)}
                  ELSE IdLists(NodeIds(nodes), MaxDeleteIds) :
            run = [pc |-> "alias", fn |-> fn, ids |-> ids,
                   heap |-> InputHeap(nodes, edges, groups)]

AliasDelete ==
    /\ run.pc = "alias" /\ run.fn = "delete"
    /\ run' = [run EXCEPT !.pc = "done",
                  !.heap = HeapAfterDeletion(@, nodes, edges, groups, run.ids)]
    /\ UNCHANGED <<nodes, edges, groups, op>>

AliasMerge ==
    /\ run.pc = "alias" /\ run.fn = "merge"
    /\ run' = [run EXCEPT !.pc = "done",
                  !.heap = HeapAfterMerge(@, nodes, edges, groups, run.ids)]
    /\ UNCHANGED <<nodes, edges, groups, op>>

AliasLayout ==
    /\ run.pc = "alias" /\ run.fn = "layout"
    /\ run' = [run EXCEPT !.pc = "done",
                  !.heap = HeapAfterLayout(@, nodes, edges)]
    /\ UNCHANGED <<nodes, edges, groups, op>>

\* getCleanedPorts(node, []) for a node whose ports were made for edges
AliasPorts ==
    /\ run.pc = "alias" /\ run.fn = "ports"
    /\ run' = [run EXCEPT !.pc = "done",
                  !.heap = PortsCleaned(@, run.ids[1], <<>>)]
    /\ UNCHANGED <<nodes, edges, groups, op>>

NextAlias ==
    \/ AliasDelete
    \/ AliasMerge
    \/ AliasLayout
    \/ AliasPorts

SpecAlias == InitAlias /\ [][NextAlias]_vars

(* ------------------------------ useHistory ------------------------------ *)
(* run is [pc |-> "history", history, redoStack, canUndo, canRedo] with the
   name of the last call, whether saveHistory recorded a snapshot, and the
   number of calls of handleUndo so far *)
\* the calls of handleUndo followed
MaxUndos == 2

\* historyRef.current.length > 20
HISTORY_LIMIT == 20

\* the canvases an edit goes between
HistoryCanvases == {<<>>, <<N(1, <<1>>, 0)>>}

\* the snapshot of the current canvas; scale and offset stay as they are
CanvasState(ns, es, gs) ==
    [nodes |-> ns, edges |-> es, groups |-> gs, scale |-> 1, offset |-> <<0, 0>>]

InitHistory ==
    /\ nodes = <<>>
    /\ edges = <<>>
    /\ groups = <<>>
    /\ op = NoOp
    /\ run = [pc |-> "history", history |-> <<>>, redoStack |-> <<>>,
              canUndo |-> FALSE, canRedo |-> FALSE,
              call |-> "none", recorded |-> FALSE, undos |-> 0]

\* mutant: the redo stack is left as it is
RedoAfterSaveKept(redoStack) == redoStack

\* redoStackRef.current = []
RedoAfterSave(redoStack) == <<>>

\* historyRef.current.push(snapshot); if (length > 20) historyRef.current.shift()
PushCapped(history, snapshot) ==
    LET pushed == Append(history, snapshot)
    IN  IF Len(pushed) > HISTORY_LIMIT THEN Tail(pushed) ELSE pushed

saveHistory ==
    /\ run.pc = "history"
    /\ LET snapshot == CanvasState(nodes, edges, groups)
           hasLast == Len(run.history) > 0
       IN  IF hasLast /\ run.history[Len(run.history)] = snapshot
           THEN run' = [run EXCEPT !.call = "saveHistory", !.recorded = FALSE]
           ELSE run' = [run EXCEPT !.history = PushCapped(@, snapshot),
                                   !.redoStack = RedoAfterSave(@),
                                   !.canUndo = TRUE, !.canRedo = FALSE,
                                   !.call = "saveHistory", !.recorded = TRUE]
    /\ UNCHANGED <<nodes, edges, groups, op>>

handleUndo ==
    /\ run.pc = "history"
    /\ run.undos < MaxUndos
    /\ Len(run.history) > 0
    /\ LET previous == run.history[Len(run.history)]
           history == SubSeq(run.history, 1, Len(run.history) - 1)
       IN  /\ run' = [run EXCEPT
                    !.redoStack = Append(@, CanvasState(nodes, edges, groups)),
                    !.history = history,
                    !.canUndo = Len(history) > 0, !.canRedo = TRUE,
                    !.call = "handleUndo", !.recorded = FALSE, !.undos = @ + 1]
           /\ nodes' = previous.nodes
           /\ edges' = previous.edges
           /\ groups' = previous.groups
    /\ UNCHANGED op

handleRedo ==
    /\ run.pc = "history"
    /\ Len(run.redoStack) > 0
    /\ LET next == run.redoStack[Len(run.redoStack)]
           redoStack == SubSeq(run.redoStack, 1, Len(run.redoStack) - 1)
       IN  /\ run' = [run EXCEPT
                    !.history = Append(@, CanvasState(nodes, edges, groups)),
                    !.redoStack = redoStack,
                    !.canUndo = TRUE, !.canRedo = Len(redoStack) > 0,
                    !.call = "handleRedo", !.recorded = FALSE]
           /\ nodes' = next.nodes
           /\ edges' = next.edges
           /\ groups' = next.groups
    /\ UNCHANGED op

\* a handler of the application sets the nodes
EditCanvas ==
    /\ run.pc = "history"
    /\ nodes' \in HistoryCanvases \ {nodes}
    /\ run' = [run EXCEPT !.call = "edit", !.recorded = FALSE]
    /\ UNCHANGED <<edges, groups, op>>

NextHistory ==
    \/ saveHistory
    \/ handleUndo
    \/ handleRedo
    \/ EditCanvas

SpecHistory == InitHistory /\ [][NextHistory]_vars

(* ------------------------------ claims --------------------------------- *)
IsDelete == op.kind = "delete"
IsMerge == op.kind = "merge" /\ ~op.null
Removed == Range(op.ids)

NoDuplicateTuples(es) ==
    \A i, j \in 1..Len(es) : i # j => ~SameTuple(es[i], es[j])

\* the edges of the result that calculateDeletionEffects synthesized
IsNewEdge(e) == e.id \notin EdgeIds(op.pre.edges)

\* C1: every edge returned by calculateDeletionEffects has its source and its
\* target among the returned nodes, and none of them is a deleted id
C1_NoDanglingEdges ==
    IsDelete =>
        \A i \in 1..Len(edges) :
            /\ edges[i].source \in NodeIds(nodes)
            /\ edges[i].target \in NodeIds(nodes)
            /\ edges[i].source \notin Removed
            /\ edges[i].target \notin Removed

\* a deletion that removed a connected node, kept an edge and made a bridge
C1_Witness ==
    /\ IsDelete
    /\ \E i \in 1..Len(edges) : IsNewEdge(edges[i])
    /\ \E i \in 1..Len(edges) : ~IsNewEdge(edges[i])
    /\ Removed \cap NodeIds(op.pre.nodes) # {}

PortsOf(ns, id) == IF id \in NodeIds(ns) THEN Range(FindNode(ns, id).ports) ELSE {}

\* C2: in every snapshot every edge's endpoints are nodes of the snapshot, no
\* edge names an id removed by the last deletion or merge, and each handle is a
\* port of the node it attaches to
C2_Consistent ==
    \A i \in 1..Len(edges) :
        /\ edges[i].source \in NodeIds(nodes)
        /\ edges[i].target \in NodeIds(nodes)
        /\ edges[i].sourceHandle \in PortsOf(nodes, edges[i].source)
        /\ edges[i].targetHandle \in PortsOf(nodes, edges[i].target)
        /\ (IsDelete \/ IsMerge) =>
              edges[i].source \notin Removed /\ edges[i].target \notin Removed

\* a merge applied to the output of a deletion, with an edge on the new node
C2_Witness ==
    /\ op.log = <<"delete", "merge">>
    /\ IsMerge
    /\ Len(op.pre.edges) > 0
    /\ \E i \in 1..Len(edges) : edges[i].target = nodes[Len(nodes)].id

\* C3: a deletion applied to edges without duplicate tuples returns edges
\* without duplicate tuples
C3_NoDuplicateBridges ==
    (IsDelete /\ NoDuplicateTuples(op.pre.edges)) => NoDuplicateTuples(edges)

\* two deleted nodes gave the same bridge, and it was made once
C3_Witness ==
    /\ IsDelete
    /\ NoDuplicateTuples(op.pre.edges)
    /\ Len(op.ids) = 2
    /\ Removed \subseteq NodeIds(op.pre.nodes)
    /\ Len(BridgePairs(op.pre.nodes, IncomingEdges(op.pre.edges, Removed),
                       OutgoingEdges(op.pre.edges, Removed), op.ids)) = 2
    /\ Cardinality({i \in 1..Len(edges) : IsNewEdge(edges[i])}) = 1

\* the pairs (i, o) of an edge i into a deleted node from a surviving node and
\* an edge o out of that node to a surviving node, as indexes of op.pre.edges
DeletedPairs ==
    LET es == op.pre.edges
    IN  {p \in (1..Len(es)) \X (1..Len(es)) :
            /\ es[p[1]].target \in Removed
            /\ es[p[1]].source \notin Removed
            /\ es[p[2]].source = es[p[1]].target
            /\ es[p[2]].target \notin Removed}

SharesPort(p) == op.pre.edges[p[1]].targetHandle = op.pre.edges[p[2]].sourceHandle

\* the returned edges from i's source port to o's target port
Across(p) ==
    {k \in 1..Len(edges) :
        /\ edges[k].source = op.pre.edges[p[1]].source
        /\ edges[k].sourceHandle = op.pre.edges[p[1]].sourceHandle
        /\ edges[k].target = op.pre.edges[p[2]].target
        /\ edges[k].targetHandle = op.pre.edges[p[2]].targetHandle}

\* C4 as stated: every pair (i, o) across a deleted node gives exactly one edge
\* from i's source port to o's target port, a new one with i's color
C4_EveryPairBridged ==
    IsDelete =>
        \A p \in DeletedPairs :
            /\ Cardinality(Across(p)) = 1
            /\ \A k \in Across(p) :
                  IsNewEdge(edges[k]) => edges[k].color = op.pre.edges[p[1]].color

\* C4 amended: applied to edges without duplicate tuples, every pair (i, o) on
\* one port of a deleted node gives exactly one edge from i's source port to o's
\* target port, and every synthesized edge joins such a pair and carries the
\* color of the incoming edge of one
C4_SharedPortPairBridged ==
    (IsDelete /\ NoDuplicateTuples(op.pre.edges)) =>
        /\ \A p \in DeletedPairs : SharesPort(p) => Cardinality(Across(p)) = 1
        /\ \A k \in 1..Len(edges) :
              IsNewEdge(edges[k]) =>
                  \E p \in DeletedPairs :
                      /\ SharesPort(p)
                      /\ k \in Across(p)
                      /\ edges[k].color = op.pre.edges[p[1]].color

\* a deleted node with a pair on one port, bridged, and a pair on two ports
C4_Witness ==
    /\ IsDelete
    /\ NoDuplicateTuples(op.pre.edges)
    /\ \E p \in DeletedPairs : SharesPort(p) /\ \E k \in Across(p) : IsNewEdge(edges[k])
    /\ \E p \in DeletedPairs : ~SharesPort(p)

UsedPorts(id, es) ==
    {es[i].sourceHandle : i \in {j \in 1..Len(es) : es[j].source = id}}
    \cup {es[i].targetHandle : i \in {j \in 1..Len(es) : es[j].target = id}}

\* the ports hold every used port and end with exactly one unused port
ReadyPort(n, es) ==
    /\ UsedPorts(n.id, es) \subseteq Range(n.ports)
    /\ Len(n.ports) >= 1
    /\ n.ports[Len(n.ports)] \notin UsedPorts(n.id, es)
    /\ Len(n.ports) >= 2 => n.ports[Len(n.ports) - 1] \in UsedPorts(n.id, es)

\* C5: after every mutation each node's ports hold all its used ports and end
\* with exactly one unused port
C5_ReadyPortKept == \A i \in 1..Len(nodes) : ReadyPort(nodes[i], edges)

Position(seq, x) == CHOOSE i \in 1..Len(seq) : seq[i] = x

\* C10: after a deletion or a merge no group lists a removed id, no group is
\* empty, and the members that were not removed keep their group and their order
C10_GroupsStripped ==
    (IsDelete \/ IsMerge) =>
        /\ \A b \in 1..Len(groups) :
              /\ Len(groups[b].nodeIds) > 0
              /\ Range(groups[b].nodeIds) \cap Removed = {}
              /\ \E a \in 1..Len(op.pre.groups) : op.pre.groups[a].id = groups[b].id
        /\ \A a \in 1..Len(op.pre.groups) :
              LET g == op.pre.groups[a]
                  kept == Range(g.nodeIds) \ Removed
              IN  kept # {} =>
                      \E b \in 1..Len(groups) :
                          /\ groups[b].id = g.id
                          /\ Range(groups[b].nodeIds) = kept
                          /\ Len(groups[b].nodeIds) = Cardinality(kept)
                          /\ \A x, y \in kept :
                                Position(g.nodeIds, x) < Position(g.nodeIds, y)
                                    => Position(groups[b].nodeIds, x)
                                           < Position(groups[b].nodeIds, y)

\* a merge that emptied one group and left two members of another
C10_Witness ==
    /\ IsMerge
    /\ Len(groups) < Len(op.pre.groups)
    /\ \E b \in 1..Len(groups), a \in 1..Len(op.pre.groups) :
          /\ groups[b].id = op.pre.groups[a].id
          /\ Len(groups[b].nodeIds) = 2
          /\ Len(op.pre.groups[a].nodeIds) = 3

IsClean == op.kind = "clean"
Cleaned == nodes[1].ports
Given == op.pre.nodes[1].ports
UsedNow == UsedPorts(nodes[1].id, edges)

\* C6: getCleanedPorts applied to its own result, with the same edges, returns
\* that result
C6_Idempotent == IsClean => getCleanedPorts(nodes[1], edges) = Cleaned

\* a first application that dropped ports and left more than one
C6_Witness == IsClean /\ Len(Cleaned) < Len(Given) /\ Len(Cleaned) >= 2

\* C7 as stated: the returned list always ends with exactly one unused port
C7_EndsWithOneUnused ==
    IsClean =>
        /\ Cleaned[Len(Cleaned)] \notin UsedNow
        /\ Len(Cleaned) >= 2 => Cleaned[Len(Cleaned) - 1] \in UsedNow

\* C7 amended: when the last port of the node is unused, the returned list ends
\* with exactly one unused port; when it is used, the list is returned as it is
C7_EndsWithOneUnusedIfLastUnused ==
    IsClean =>
        IF Given[Len(Given)] \notin UsedNow
        THEN /\ Cleaned[Len(Cleaned)] \notin UsedNow
             /\ Len(Cleaned) >= 2 => Cleaned[Len(Cleaned) - 1] \in UsedNow
        ELSE Cleaned = Given

\* a run of unused trailing ports collapsed to one after a used port
C7_Witness ==
    /\ IsClean
    /\ Given[Len(Given)] \notin UsedNow
    /\ Len(Given) >= Len(Cleaned) + 2
    /\ Len(Cleaned) >= 2

\* C8: the returned list is a prefix of the node's ports, holds every used
\* port, and holds every port that precedes a used port
C8_PrefixKeepsUsed ==
    IsClean =>
        /\ Len(Cleaned) <= Len(Given)
        /\ \A i \in 1..Len(Cleaned) : Cleaned[i] = Given[i]
        /\ UsedNow \cap Range(Given) \subseteq Range(Cleaned)
        /\ \A i, j \in 1..Len(Given) :
              (i < j /\ Given[j] \in UsedNow) => Given[i] \in Range(Cleaned)

\* an unused port before a used one was kept while trailing ports were dropped
C8_Witness ==
    /\ IsClean
    /\ Len(Cleaned) < Len(Given)
    /\ \E i, j \in 1..Len(Given) :
          i < j /\ Given[i] \notin UsedNow /\ Given[j] \in UsedNow

\* the index of the last used port of the given list, 0 when none is used
LastUsed ==
    LET used == {i \in 1..Len(Given) : Given[i] \in UsedNow}
    IN  IF used = {} THEN 0 ELSE CHOOSE i \in used : \A j \in used : j <= i

\* C9: the returned list is the prefix that ends one port after the last used
\* port (the whole list when the last port is used), and is never empty
C9_OnePastLastUsed ==
    IsClean =>
        /\ Len(Cleaned) >= 1
        /\ Cleaned = SubSeq(Given, 1,
                        IF LastUsed = Len(Given) THEN Len(Given) ELSE LastUsed + 1)

\* [p1 used, p2 unused, p3 unused] gave [p1, p2]
C9_Witness ==
    /\ IsClean
    /\ Len(Given) = 3
    /\ Given[1] \in UsedNow /\ Given[2] \notin UsedNow /\ Given[3] \notin UsedNow
    /\ Cleaned = <<Given[1], Given[2]>>

(* performLayout *)
LayoutDone == run.pc = "done" /\ Len(nodes) > 0

IsInduced(e) == e.source \in NodeIds(nodes) /\ e.target \in NodeIds(nodes)
InducedEdges == SelectSeq(edges, IsInduced)

\* for each target node the most edges of a walk of at most k induced edges
\* that ends at it
RECURSIVE Walk(_)
Walk(k) ==
    IF k = 0 THEN [id \in NodeIds(nodes) |-> 0]
    ELSE LET shorter == Walk(k - 1)
         IN  [id \in NodeIds(nodes) |->
                Max({0} \cup {shorter[InducedEdges[j].source] + 1 :
                        j \in {q \in 1..Len(InducedEdges) :
                                 InducedEdges[q].target = id}})]

\* no walk of induced edges visits a node twice
Acyclic == \A id \in NodeIds(nodes) : Walk(Len(nodes))[id] < Len(nodes)

LongestPath == Walk(Len(nodes) - 1)

XOf(ns, id) == FindNode(ns, id).x

\* C11: when the induced subgraph is acyclic, the level of each node is the
\* length of the longest path of induced edges ending at it, for every order of
\* the edge list, and the target of every induced edge is placed strictly to
\* the right of its source
C11_LongestPathLevels ==
    (LayoutDone /\ Acyclic) =>
        /\ \A id \in NodeIds(nodes) : run.levels[id] = LongestPath[id]
        /\ \A j \in 1..Len(InducedEdges) :
              XOf(run.result, InducedEdges[j].target)
                  > XOf(run.result, InducedEdges[j].source)

\* the chain 1 -> 2 -> 3 with its edges listed from the end, and an edge that
\* leaves the target set: the levels are 0, 1, 2
C11_Witness ==
    /\ LayoutDone
    /\ Len(nodes) = 3
    /\ Len(edges) = 3
    /\ edges[1].source = 2 /\ edges[1].target = 3
    /\ edges[2].source = 1 /\ edges[2].target = 2
    /\ edges[3].target = 4
    /\ run.levels = [id \in 1..3 |-> id - 1]
    /\ XOf(run.result, 1) < XOf(run.result, 2)
    /\ XOf(run.result, 2) < XOf(run.result, 3)

\* C12: the leveling loop ends for every input, cycles and self-loops
\* included; it makes at most |targetNodes| + 1 passes, is left after the first
\* pass that changes no level, and no pass lowers a level
C12_LevelingTerminates ==
    /\ <>(run.pc = "done")
    /\ [](run.passes <= Len(nodes) + 1)
    /\ [][(run.pc = "level" /\ run'.passes = run.passes + 1) =>
            /\ \A id \in NodeIds(nodes) : run'.levels[id] >= run.levels[id]
            /\ (run'.levels = run.levels) => run'.pc = "place"
            /\ (run'.levels # run.levels /\ run'.passes < Len(nodes) + 1)
                  => run'.pc = "level"]_vars

\* a cycle kept the loop going to the pass cap, and the call returned
C12_Witness ==
    /\ LayoutDone
    /\ run.passes = Len(nodes) + 1
    /\ Len(nodes) >= 2
    /\ ~Acyclic

\* C13: performLayout returns the target nodes in their order, each changed in
\* its position only, and returns the same for the edge list without the edges
\* that have an endpoint outside the target set
C13_OnlyPositionsChange ==
    run.pc = "done" =>
        /\ Len(run.result) = Len(nodes)
        /\ \A k \in 1..Len(nodes) :
              [run.result[k] EXCEPT !.x = nodes[k].x, !.y = nodes[k].y] = nodes[k]
        /\ run.result = performLayout(nodes, InducedEdges, ORIGIN, ORIGIN)

\* three nodes were moved while an edge into the target set from outside and an
\* induced edge were in the list
C13_Witness ==
    /\ LayoutDone
    /\ Len(nodes) = 3
    /\ \E j \in 1..Len(edges) : edges[j].source = 4 /\ edges[j].target = 1
    /\ Len(InducedEdges) >= 1
    /\ \A k \in 1..Len(nodes) : run.result[k] # nodes[k]


(* getExecutionSequence *)
WalkDone == run.pc = "done"

EdgeOf(id) == edges[CHOOSE j \in 1..Len(edges) : edges[j].id = id]
Recorded(r) == {EdgeOf(id) : id \in r.ancestorEdges}
SeqIds(seq) == {seq[k].id : k \in 1..Len(seq)}
Ends(es) == {<<es[j].source, es[j].target>> : j \in 1..Len(es)}

\* the edges are 1 -> 2, 1 -> 3, 2 -> 4 and 3 -> 4, on any ports
IsDiamond == Len(edges) = 4 /\ Ends(edges) = {<<1, 2>>, <<1, 3>>, <<2, 4>>, <<3, 4>>}

\* the original statement of C14: from node 4 of a diamond the call returns all
\* four nodes and the ids of all four edges
C14_DiamondAllFour ==
    (WalkDone /\ IsDiamond /\ run.trigger = 4) =>
        /\ SeqIds(run.sequence) = {1, 2, 3, 4}
        /\ run.ancestorEdges = EdgeIds(edges)

\* at nodes 2 and 3 the edge from node 1 enters the port the edge to node 4
\* leaves
PortsLineUp ==
    \A i, o \in 1..Len(edges) :
        (edges[i].target = edges[o].source /\ edges[o].target = 4)
            => edges[i].targetHandle = edges[o].sourceHandle

\* C14 (amended): from node 4 of a diamond whose edges pass through one port of
\* node 2 and one port of node 3, the call returns all four nodes and the ids
\* of all four edges
C14_DiamondSamePorts ==
    (WalkDone /\ IsDiamond /\ PortsLineUp /\ run.trigger = 4) =>
        /\ SeqIds(run.sequence) = {1, 2, 3, 4}
        /\ Len(run.sequence) = 4
        /\ run.ancestorEdges = EdgeIds(edges)

\* the call returned from node 4 of a diamond through port 2 of node 2
C14_Witness ==
    /\ WalkDone /\ IsDiamond /\ PortsLineUp /\ run.trigger = 4
    /\ \E j \in 1..Len(edges) : edges[j].target = 2 /\ edges[j].targetHandle = 2
    /\ Len(run.sequence) = 4

\* C15: the sequence holds the trigger node and the source of every recorded
\* edge, as far as they are in the nodes array, each once, by non-decreasing x
C15_SequenceSortedVisited ==
    WalkDone =>
        LET seq == run.sequence
            visited == {run.trigger} \cup {e.source : e \in Recorded(run)}
        IN  /\ SeqIds(seq) = visited \cap NodeIds(nodes)
            /\ Len(seq) = Cardinality(SeqIds(seq))
            /\ \A k \in 1..Len(seq) : seq[k] \in Range(nodes)
            /\ \A k \in 1..(Len(seq) - 1) : seq[k].x <= seq[k + 1].x

\* three nodes were visited that the nodes array holds in another order than
\* their x, two of them at the same x
C15_Witness ==
    /\ WalkDone
    /\ Len(run.sequence) >= 3
    /\ \E k \in 1..(Len(run.sequence) - 1) :
            run.sequence[k].id > run.sequence[k + 1].id
    /\ \E k \in 1..(Len(run.sequence) - 1) :
            run.sequence[k].x = run.sequence[k + 1].x

\* C16: every edge into the trigger node is recorded; an edge into another
\* node U is recorded only when an edge recorded before leaves U from the port
\* it enters, and every stack entry stands for a recorded edge
C16_PortScoped ==
    /\ [](WalkDone =>
            \A j \in 1..Len(edges) :
                edges[j].target = run.trigger => edges[j].id \in run.ancestorEdges)
    /\ [](\A k \in 1..Len(run.stack) :
            \/ run.stack[k] = [nodeId |-> run.trigger, inputPortId |-> NoPort]
            \/ \E f \in Recorded(run) :
                    /\ f.source = run.stack[k].nodeId
                    /\ f.sourceHandle = run.stack[k].inputPortId)
    /\ [][\A e \in Recorded(run') \ Recorded(run) :
            e.target # run.trigger =>
                \E f \in Recorded(run) :
                    f.source = e.target /\ f.sourceHandle = e.targetHandle]_vars

\* node U has a recorded inbound edge and an inbound edge on another port that
\* was not recorded
C16_Witness ==
    /\ WalkDone
    /\ \E e \in Recorded(run) : \E j \in 1..Len(edges) :
            /\ e.target # run.trigger
            /\ edges[j].target = e.target
            /\ edges[j].targetHandle # e.targetHandle
            /\ edges[j].id \notin run.ancestorEdges

\* C17: on an acyclic edge list the traversal ends, from every trigger node
C17_AcyclicTerminates == Acyclic => <>WalkDone

\* the call returned after it popped a node more than once
C17_Witness ==
    /\ WalkDone
    /\ Acyclic
    /\ run.pops > Cardinality(run.visitedNodes) + 1


(* calculateMergeEffects *)
MergeDone == run.pc = "done" /\ "mergeNodeIds" \in DOMAIN run
MergeIds == Range(run.mergeNodeIds)
Matched == MergeIds \cap NodeIds(nodes)

\* C18: the call returns null exactly when no merge id names a node; otherwise
\* the returned nodes are the given nodes without the matched ones, in their
\* order, followed by one new node that has one port
C18_NullIffNoMatch ==
    MergeDone =>
        /\ run.result.null <=> Matched = {}
        /\ ~run.result.null =>
            LET res == run.result
                Kept(n) == n.id \notin Matched
            IN  /\ Len(res.nodes) = Len(SelectSeq(nodes, Kept)) + 1
                /\ SubSeq(res.nodes, 1, Len(res.nodes) - 1) = SelectSeq(nodes, Kept)
                /\ res.nodes[Len(res.nodes)] = res.newNode
                /\ res.newNode.id \notin NodeIds(nodes) \cup MergeIds
                /\ Len(res.newNode.ports) = 1

\* one id of two named a node, and the node was merged away
C18_Witness ==
    /\ MergeDone
    /\ ~run.result.null
    /\ Cardinality(Matched) = 1
    /\ Len(run.mergeNodeIds) = 2
    /\ Len(run.result.nodes) = Len(nodes)

Tuple(e) == <<e.source, e.sourceHandle, e.target, e.targetHandle>>
Touches(e) == e.source \in MergeIds \/ e.target \in MergeIds
Inner(e) == e.source \in MergeIds /\ e.target \in MergeIds
Inward(e) == e.source \notin MergeIds /\ e.target \in MergeIds
Outward(e) == e.source \in MergeIds /\ e.target \notin MergeIds
Count(es, t) == Cardinality({j \in 1..Len(es) : Tuple(es[j]) = t})

\* the rewiring of C19 without its last clause
Rewired(res) ==
    LET new == res.newNode.id
        port == res.newNode.ports[1]
        Untouched(e) == ~Touches(e)
        OnNew(e) == e.source = new \/ e.target = new
        NotOnNew(e) == ~OnNew(e)
        made == SelectSeq(res.edges, OnNew)
    IN  /\ SelectSeq(res.edges, NotOnNew) = SelectSeq(edges, Untouched)
        /\ {Tuple(made[j]) : j \in 1..Len(made)}
             = {<<e.source, e.sourceHandle, new, port>> :
                    e \in {f \in Range(edges) : Inward(f)}}
               \cup {<<new, port, e.target, e.targetHandle>> :
                    e \in {f \in Range(edges) : Outward(f)}}
        /\ \A j \in 1..Len(made) : Count(made, Tuple(made[j])) = 1
        /\ \A j \in 1..Len(res.edges) : res.edges[j].source \notin MergeIds
                                     /\ res.edges[j].target \notin MergeIds
        /\ Cardinality(EdgeIds(res.edges)) = Len(res.edges)

\* the original statement of C19: the edges are rewired and no two returned
\* edges have the same source, sourceHandle, target and targetHandle
C19_RewiredNoDuplicates ==
    (MergeDone /\ ~run.result.null) =>
        /\ Rewired(run.result)
        /\ NoDuplicateTuples(run.result.edges)

\* C19 (amended): edges between merged nodes are dropped, the edges into and
\* out of merged nodes become one edge on the new node's port per outside
\* endpoint and handle, the other edges are returned as they are, and two
\* returned edges have the same tuple only when they are two of these others
C19_RewiredOncePerEndpoint ==
    (MergeDone /\ ~run.result.null) =>
        /\ Rewired(run.result)
        /\ \A i, j \in 1..Len(run.result.edges) :
              (i # j /\ SameTuple(run.result.edges[i], run.result.edges[j]))
                  => /\ run.result.edges[i] \in Range(edges)
                     /\ run.result.edges[j] \in Range(edges)
                     /\ ~Touches(run.result.edges[i])

\* nodes 2 and 3 of the diamond were merged: two edges in became one, two edges
\* out became one, the doubled edge 1 -> 2 became the same one, 2 -> 3 is gone
C19_Witness ==
    /\ MergeDone
    /\ ~run.result.null
    /\ MergeIds = {2, 3}
    /\ Len(edges) = 6
    /\ Len(run.result.edges) = 2

\* the texts between the separators of a merged content
RECURSIVE Split(_, _)
Split(text, part) ==
    IF text = <<>> THEN <<part>>
    ELSE IF Len(text) >= 2 /\ text[1] = "\n" /\ text[2] = "\n"
    THEN <<part>> \o Split(SubSeq(text, 3, Len(text)), <<>>)
    ELSE Split(Tail(text), Append(part, text[1]))

\* C20: the content of the new node is the contents of the merged nodes that
\* are not blank, as they are, in the order of the merge id list, with a blank
\* line between two of them; it is empty when all are blank
C20_ContentInMergeOrder ==
    (MergeDone /\ ~run.result.null) =>
        LET Found(id) == id \in NodeIds(nodes)
            found == SelectSeq(run.mergeNodeIds, Found)
            NotBlankAt(id) == FindNode(nodes, id).content \notin {<<>>, <<" ">>}
            kept == SelectSeq(found, NotBlankAt)
            content == run.result.newNode.content
        IN  IF kept = <<>> THEN content = <<>>
            ELSE Split(content, <<>>) = [k \in 1..Len(kept) |->
                                            FindNode(nodes, kept[k]).content]

\* nodes were merged against the order of the nodes array, a blank one among
\* them
C20_Witness ==
    /\ MergeDone
    /\ ~run.result.null
    /\ run.mergeNodeIds = <<3, 2, 1>>
    /\ nodes[3].content = <<" ", "b">>
    /\ nodes[2].content = <<" ">>
    /\ nodes[1].content = <<"a">>
    /\ run.result.newNode.content = <<" ", "b", "\n", "\n", "a">>


(* calculateDeletionEffects on ids that name no node *)
\* C21: a deletion whose ids name no node returns the nodes with their ports
\* and positions, the edges and the groups as they were given
C21_AbsentIdsNoOp ==
    (IsDelete /\ Removed \cap NodeIds(op.pre.nodes) = {}) =>
        /\ nodes = op.pre.nodes
        /\ edges = op.pre.edges
        /\ groups = op.pre.groups

\* ids that name no node were deleted from a canvas with edges, groups and the
\* node of a merge
C21_Witness ==
    /\ IsDelete
    /\ Removed \cap NodeIds(op.pre.nodes) = {}
    /\ op.log = <<"merge", "delete">>
    /\ Len(op.pre.edges) >= 2
    /\ Len(op.pre.groups) >= 1


(* calculateDeletionEffects: bridges and shifts *)
DeleteDone == run.pc = "done" /\ "deletedNodeIds" \in DOMAIN run
Deleted == Range(run.deletedNodeIds)

\* the bridged edges of the result, in the order they were made
Bridges ==
    LET Made(e) == e.id \notin EdgeIds(edges) IN SelectSeq(run.result.edges, Made)

XBefore(id) == FindNode(nodes, id).x
XAfter(id) == FindNode(run.result.nodes, id).x
Gap(b) == XBefore(b.target) - XBefore(b.source)
MovedIds == {run.result.moves[k].id : k \in 1..Len(run.result.moves)}

\* the nodes reached from the nodes S along the edges es
RECURSIVE Forward(_, _)
Forward(S, es) ==
    LET next == S \cup {es[j].target : j \in {k \in 1..Len(es) : es[k].source \in S}}
    IN  IF next = S THEN S ELSE Forward(next, es)

\* the original statement of C23: for every bridged edge with a gap of more
\* than 450 the target and the nodes after it are moved left by gap - 400 and
\* the target ends 400 to the right of the source; other bridged edges move
\* nothing
C23_EveryBridgeCloses ==
    DeleteDone =>
        /\ \A k \in 1..Len(Bridges) :
              Gap(Bridges[k]) > IDEAL_GAP + 50 =>
                  /\ \A id \in Forward({Bridges[k].target}, run.result.edges) :
                        XAfter(id) = XBefore(id) - (Gap(Bridges[k]) - IDEAL_GAP)
                  /\ XAfter(Bridges[k].target) - XAfter(Bridges[k].source) = IDEAL_GAP
        /\ (\A k \in 1..Len(Bridges) : Gap(Bridges[k]) <= IDEAL_GAP + 50) =>
              \A id \in NodeIds(run.result.nodes) : XAfter(id) = XBefore(id)

\* C23 (amended): the first bridged edge with a gap of more than 450 moves its
\* target and the nodes after it left by gap - 400, and its target ends 400 to
\* the right of its source when the source is not moved; every moved node comes
\* after the target of a bridged edge; when no bridged edge has a gap of more
\* than 450 no node is moved
C23_FirstBridgeCloses ==
    DeleteDone =>
        LET big == {k \in 1..Len(Bridges) : Gap(Bridges[k]) > IDEAL_GAP + 50}
        IN  /\ big = {} => \A id \in NodeIds(run.result.nodes) : XAfter(id) = XBefore(id)
            /\ big # {} =>
                LET b == Bridges[Min(big)]
                IN  /\ \A id \in Forward({b.target}, run.result.edges) :
                          XAfter(id) = XBefore(id) - (Gap(b) - IDEAL_GAP)
                    /\ b.source \notin MovedIds =>
                          XAfter(b.target) - XAfter(b.source) = IDEAL_GAP
            /\ \A id \in NodeIds(run.result.nodes) :
                  XAfter(id) # XBefore(id) =>
                      \E k \in 1..Len(Bridges) :
                          id \in Forward({Bridges[k].target}, run.result.edges)

\* node 2 of the chain 1 -> 2 -> 3 -> 4 was deleted: nodes 3 and 4 moved left
\* by 600 and node 3 is 400 to the right of node 1
C23_Witness ==
    /\ DeleteDone
    /\ Deleted = {2}
    /\ Len(Bridges) = 1
    /\ Gap(Bridges[1]) = 1000
    /\ XAfter(3) = 400
    /\ XAfter(4) = 900
    /\ XAfter(1) = 0


\* no edge of es starts at a node that is reached from its target
IsAcyclic(es) ==
    \A j \in 1..Len(es) : es[j].source \notin Forward({es[j].target}, es)

\* C27: the edges returned for an acyclic edge list are acyclic, for every
\* list of ids to delete
C27_AcyclicityKept ==
    (DeleteDone /\ IsAcyclic(edges)) => IsAcyclic(run.result.edges)

\* a node of an acyclic graph was deleted, two bridges were made and an edge
\* between surviving nodes was kept
C27_Witness ==
    /\ DeleteDone
    /\ IsAcyclic(edges)
    /\ Len(Bridges) = 2
    /\ Len(run.result.edges) = 3


ShiftDone == run.pc = "done"
WritesTo(id) == {k \in 1..Len(run.writes) : run.writes[k].id = id}

\* C24: the shifting ends for every graph, cycles included; each surviving node
\* is written at most once, by a negative amount, so its x is its old x or its
\* old x plus that amount and never more than its old x, its y is its old y,
\* and the nodes are where calculateDeletionEffects returns them
C24_ShiftedOnce ==
    /\ <>ShiftDone
    /\ [](\A id \in NodeIds(run.nextNodes) :
            LET before == FindNode(nodes, id)
                after == FindNode(run.nextNodes, id)
            IN  /\ Cardinality(WritesTo(id)) <= 1
                /\ \A k \in WritesTo(id) :
                      /\ run.writes[k].deltaX < 0
                      /\ after.x = before.x + run.writes[k].deltaX
                /\ WritesTo(id) = {} => after.x = before.x
                /\ after.x <= before.x
                /\ after.y = before.y)
    /\ [](ShiftDone =>
            LET result == calculateDeletionEffects(nodes, edges, groups,
                                                   run.deletedNodeIds)
            IN  /\ result.moves = run.writes
                /\ NodeIds(run.nextNodes) = NodeIds(nodes) \ Range(run.deletedNodeIds)
                /\ \A id \in NodeIds(run.nextNodes) :
                      FindNode(result.nodes, id).x = FindNode(run.nextNodes, id).x)

\* node 3 is the target of two bridged edges that both had a gap of more than
\* 450 when their turn came, and was written once
C24_Witness ==
    /\ ShiftDone
    /\ Cardinality(WritesTo(3)) = 1
    /\ LET bridgedEdges == BridgedEdges(nodes, edges, run.deletedNodeIds)
       IN  /\ Len(bridgedEdges) = 2
           /\ \A k \in 1..2 :
                 /\ bridgedEdges[k].target = 3
                 /\ FindNode(run.nextNodes, 3).x
                      - FindNode(run.nextNodes, bridgedEdges[k].source).x
                    >= IDEAL_GAP
           /\ FindNode(run.nextNodes, 3).x
                - FindNode(run.nextNodes, bridgedEdges[2].source).x > IDEAL_GAP + 50

\* the shifting went round a cycle and ended
C24_WitnessCycle ==
    /\ ShiftDone
    /\ ~IsAcyclic(run.finalEdges)
    /\ \E k \in 1..Len(run.writes) :
          \E e \in Range(run.finalEdges) :
              e.target = run.writes[1].id /\ e.source = run.writes[k].id

\* the edge b joins an edge into the deleted node d and an edge out of it on
\* one port of d, and d is the only deleted node on the way
BridgesOver(b, d) ==
    \E i, o \in Range(edges) :
        /\ i.target = d /\ i.source \notin Deleted
        /\ o.source = d /\ o.target \notin Deleted
        /\ i.targetHandle = o.sourceHandle
        /\ b.source = i.source /\ b.sourceHandle = i.sourceHandle
        /\ b.target = o.target /\ b.targetHandle = o.targetHandle

\* C29: no edge with a deleted end is returned, every new edge bridges one
\* single deleted node, and so two surviving nodes that were joined only
\* through a pair of deleted nodes joined by an edge are not joined afterwards
C29_NoBridgeAcrossPair ==
    DeleteDone =>
        /\ \A e \in Range(run.result.edges) :
              e.source \notin Deleted /\ e.target \notin Deleted
        /\ \A k \in 1..Len(Bridges) : \E d \in Deleted : BridgesOver(Bridges[k], d)
        /\ \A a, z \in NodeIds(run.result.nodes) :
              (/\ \E e \in Range(run.result.edges) : e.source = a /\ e.target = z
               /\ \A e \in Range(edges) : ~(e.source = a /\ e.target = z))
              => \E d \in Deleted : \E i, o \in Range(edges) :
                    /\ i.source = a /\ i.target = d
                    /\ o.source = d /\ o.target = z

\* nodes 2 and 3 of the chain 1 -> 2 -> 3 -> 4 were deleted and no edge is left
C29_Witness ==
    /\ DeleteDone
    /\ Deleted = {2, 3}
    /\ Len(edges) = 3
    /\ \E i, j, k \in 1..3 :
          /\ edges[i].source = 1 /\ edges[i].target = 2
          /\ edges[j].source = 2 /\ edges[j].target = 3
          /\ edges[k].source = 3 /\ edges[k].target = 4
    /\ run.result.edges = <<>>
    /\ NodeIds(run.result.nodes) = {1, 4}


SameColumn(i, j) == run.levels[nodes[i].id] = run.levels[nodes[j].id]

\* node i comes above node j: the smaller y before the layout, then the order
\* of the input
Above(i, j) == nodes[i].y < nodes[j].y \/ (nodes[i].y = nodes[j].y /\ i < j)
AboveInColumn(i) == {j \in 1..Len(nodes) : SameColumn(i, j) /\ Above(j, i)}

\* the height the stacking takes for a node that is collapsed or has a height
StackHeight(n) ==
    IF n.collapsed
    THEN (IF 28 * Len(n.ports) + 45 > 70 THEN 28 * Len(n.ports) + 45 ELSE 70)
    ELSE n.height
HasStackHeight(n) == n.collapsed \/ n.height > 0

HistoryRun == run.pc = "history"

\* C30: the undo stack holds at most 20 snapshots and the two stacks together
\* at most 20; after a saveHistory that recorded a snapshot the redo stack is
\* empty; canUndo and canRedo say whether the undo and the redo stack hold a
\* snapshot
C30_HistoryBounded ==
    HistoryRun =>
        /\ Len(run.history) <= 20
        /\ Len(run.history) + Len(run.redoStack) <= 20
        /\ (run.call = "saveHistory" /\ run.recorded) => run.redoStack = <<>>
        /\ run.canUndo <=> Len(run.history) > 0
        /\ run.canRedo <=> Len(run.redoStack) > 0

\* handleRedo has put a twentieth snapshot on the undo stack
C30_Witness ==
    /\ HistoryRun
    /\ run.call = "handleRedo"
    /\ Len(run.history) = 20
    /\ run.canUndo /\ ~run.canRedo

\* after a handleUndo, saveHistory has recorded a twentieth snapshot and
\* emptied the redo stack
C30_WitnessSave ==
    /\ HistoryRun
    /\ run.call = "saveHistory" /\ run.recorded
    /\ Len(run.history) = 20
    /\ run.undos = 1
    /\ run.redoStack = <<>>


\* C28: from the acyclic canvases, after any deletions and merges, every call
\* of getExecutionSequence that is started returns
C28_WalkReturns == (run.pc = "walk") ~> (run.pc = "done")


GenerateRun == run.pc = "generate"

\* a request that is awaited and was not aborted has its controller under its
\* node
C26_Cancellable ==
    GenerateRun =>
        \A r \in 1..Len(run.requests) :
            (run.requests[r].stage = "flight" /\ ~run.requests[r].signalAborted)
                => run.abortControllers[run.requests[r].node] = r

\* no result was written for a node that was not on the canvas
C26_DeletedNotApplied ==
    GenerateRun => \A a \in run.applied : a.present

\* C26: while a request is in flight and not aborted its controller stays
\* registered under its node, whatever earlier requests for the node do, and
\* the result of a request whose node was deleted is not applied
C26_CancellableUntilSettled == C26_Cancellable /\ C26_DeletedNotApplied


AliasDone == run.pc = "done" /\ "heap" \in DOMAIN run

\* the objects of the caller are as they were
InputsUntouched ==
    \A ref \in InputRefs(nodes, groups) :
        run.heap[ref] = InputHeap(nodes, edges, groups)[ref]

\* the call has made an object of its own from the object at ref
OwnObject(ref) == Copy(ref) \in DOMAIN run.heap

\* C22: after calculateDeletionEffects, calculateMergeEffects, performLayout or
\* getCleanedPorts the position objects and port lists of the nodes given, the
\* node list, the edges and the groups hold what they held before the call;
\* what the call returns is in objects of its own
C22_InputsNotMutated ==
    AliasDone =>
        /\ InputsUntouched
        /\ run.fn = "delete" =>
              LET result == calculateDeletionEffects(nodes, edges, groups, run.ids)
              IN  \A i \in 1..Len(result.nodes) :
                    LET n == result.nodes[i]
                    IN  /\ OwnObject(PositionRef(n.id))
                        /\ OwnObject(PortsRef(n.id))
                        /\ run.heap[Copy(PositionRef(n.id))].x = n.x
                        /\ run.heap[Copy(PortsRef(n.id))] = n.ports
        /\ run.fn = "layout" =>
              \A i \in 1..Len(nodes) :
                  /\ OwnObject(PositionRef(nodes[i].id))
                  /\ run.heap[Copy(PositionRef(nodes[i].id))].y
                        = performLayout(nodes, edges, ORIGIN, ORIGIN)[i].y
        /\ run.fn = "ports" =>
              /\ OwnObject(PortsRef(run.ids[1]))
              /\ run.heap[Copy(PortsRef(run.ids[1]))]
                    = getCleanedPorts(FindNode(nodes, run.ids[1]), <<>>)

\* a deletion has moved a surviving node and shortened its port list: the
\* objects returned differ from those given, which are as they were
C22_Witness ==
    /\ AliasDone
    /\ run.fn = "delete"
    /\ InputsUntouched
    /\ \E id \in NodeIds(nodes) :
          /\ Copy(PositionRef(id)) \in DOMAIN run.heap
          /\ run.heap[Copy(PositionRef(id))].x < run.heap[PositionRef(id)].x
          /\ Len(run.heap[Copy(PortsRef(id))]) < Len(run.heap[PortsRef(id)])

\* a layout has put the copy of the node list in another order
C22_WitnessLayout ==
    /\ AliasDone
    /\ run.fn = "layout"
    /\ run.heap[Copy(NodesRef)] # run.heap[NodesRef]
    /\ run.heap[NodesRef] = <<1, 2, 3, 4>>


====
